---- MODULE Spec2Model ----
(***************************************************************************)
(* Model of tools/nut-scanner/nut-scanner.c: the scan orchestration of     *)
(* nut-scanner.  main() is modelled phase by phase:                        *)
(*   - the option loop with the two-slot pending buffer feeding the        *)
(*     IP range registry (SpecOpts),                                       *)
(*   - the thread-ceiling computation from the descriptor limit and -T     *)
(*     (SpecThreads),                                                      *)
(*   - the protocol options and the exits of the option loop (SpecCli),    *)
(*   - the -m auto* requests over the local interfaces (SpecAuto),         *)
(*   - add_ip_range() and free_ip_ranges() called one by one, followed by  *)
(*     the scan of the range-scoped protocols (SpecRegistry),              *)
(*   - dispatch of the protocol units, join, report and release (Spec).    *)
(* Pointers are modelled as identities: 0 is NULL, a string returned by    *)
(* strdup() is a fresh allocation number, a list node is its index in the  *)
(* node heap.                                                              *)
(***************************************************************************)
EXTENDS Integers, Sequences, FiniteSets, TLC

\* ------------------------------------------------------------------ bounds
\* Number of address options (-s, -e, -m) one command line holds.
MaxOpts == 5
\* Number of ranges the registry holds when the units are dispatched.
MaxRanges == 2
\* Number of pthread_create() calls that fail in one run.
MaxCreateFail == 1
\* Number of requested protocols whose capability is not available.
MaxUnavail == 1
\* Largest library default of max_threads.
MaxDefaultThreads == 6
\* Number of -T options one command line holds.
MaxT == 2
\* Number of protocols requested one by one (-U, -S, -M, -O, -n, -A, -I).
MaxProtoOpts == 2
\* Number of protocol options (-U .. -E, -C) one command line holds.
MaxCliOpts == 5
\* Number of add_ip_range() calls made one by one.
MaxAdds == 4
\* Number of address options when -m auto is among them.
MaxAutoOpts == 4
\* Number of interfaces getifaddrs() reports.
MaxIfs == 2
\* Number of devices one probe call finds, and of distinct devices there are.
MaxDevs == 2
\* Number of -t options, and the largest of the small values given to -t.
MaxTimeoutOpts == 2
MaxTimeoutArg == 3

NULL == 0

\* Integer widths, scaled down: unsigned int has 3 bits, long 5 (signed),
\* size_t and rlim_t 5 (unsigned); RLIM_INFINITY is the largest rlim_t.
UINT_MAX == 7
LONG_MAX == 15
SIZE_MAX == 31
RLIM_INFINITY == 31
RESERVE_FD_COUNT == 3

\* Exit statuses.
EXIT_SUCCESS == 0
EXIT_FAILURE == 1
ERR_BAD_OPTION == -1

\* The default of the network timeout, in seconds.
DEFAULT_NETWORK_TIMEOUT == 5

\* The protocol kinds in enumeration order (TYPE_USB .. TYPE_EATON_SERIAL).
Kinds == <<"USB", "SNMP", "XML", "NUT", "NUT_SIMULATION", "AVAHI", "IPMI", "EATON_SERIAL">>
KindSet == {Kinds[i] : i \in 1..Len(Kinds)}
KindIndex(k) == CHOOSE i \in 1..Len(Kinds) : Kinds[i] = k

VARIABLES
    pc,               \* position of main()
    cur,              \* index (in enumeration order) of the protocol main() is at
    nopts,            \* options processed so far
    nalloc,           \* strings allocated so far (strdup, nutscan_cidr_to_ip)
    supplied,         \* history: the address options given, in order
    start_ip,         \* main(): char *start_ip
    end_ip,           \* main(): char *end_ip
    nodes,            \* heap of ip_range_t nodes, node id = index
    ip_ranges,        \* head of the list (node id or NULL)
    ip_ranges_last,   \* tail of the list (node id or NULL)
    ip_ranges_count,  \* number of recorded ranges
    allow_all,        \* main(): int allow_all
    allow,            \* allow_usb .. allow_eaton_serial
    cli_link_detail_level,
    nutscan_avail,    \* nutscan_avail_usb .. (no flag exists for serial)
    avail0,           \* history: nutscan_avail as it was before dispatch
    thread,           \* pthread_t thread[TYPE_END]; 0 is the static zero value
    unit,             \* per protocol: "none", "running", "done"
    dev,              \* nutscan_device_t *dev[TYPE_END]
    calls,            \* history: the (start, end) arguments of each probe call
    writers,          \* history: which units wrote each result slot
    nstarted,         \* history: units started per protocol
    createFailed,     \* history: protocols whose pthread_create() failed
    joinCalled,       \* history: protocols main() called pthread_join() for
    reported,         \* history: formatter calls [kind, list], in order
    released,         \* history: slots passed to nutscan_free_device()
    readEarly,        \* history: a slot was read while its unit was running
    outOfOrder,       \* history: a unit finished before an earlier-started one
    found,            \* environment: the devices a probe finds per range node (0: no range)
    ifap,             \* environment: the interface addresses getifaddrs() reports
    rlim_env,         \* environment: the soft limit getrlimit() reports
    nofile_limit,     \* nofile_limit.rlim_cur
    default_threads,  \* history: max_threads as the library initialised it
    max_threads,      \* size_t max_threads
    lastT,            \* history: the last -T value that was accepted (0: none)
    sem,              \* the counting gate nutscan_semaphore() returns
    auto_nets,        \* main(): int auto_nets (0, 4, 6 or 46)
    nauto,            \* history: -m auto/auto4/auto6 requests processed
    ret_code,         \* main(): int ret_code
    opt_ret,          \* main(): the option getopt_long() returned last ("": none yet)
    status,           \* the value main() returns or exit() is given, once pc is "exit" or "done"
    nU,               \* history: -U options processed
    addCalls,         \* history: the add_ip_range() calls made one by one, with the value returned
    freed,            \* history: what free_ip_ranges() passed to free(), in order
    timeout,          \* static useconds_t timeout, in microseconds
    tArgs             \* history: the values atol() gave for the -t options, in order

optVars == <<nopts, nalloc, supplied, start_ip, end_ip>>
regVars == <<nodes, ip_ranges, ip_ranges_last, ip_ranges_count>>
flagVars == <<allow_all, allow, cli_link_detail_level, nutscan_avail, avail0>>
unitVars == <<thread, unit, dev, calls, writers, nstarted, outOfOrder>>
mainHist == <<createFailed, joinCalled, reported, released, readEarly>>
envVars == <<found, rlim_env, default_threads, ifap>>
netVars == <<timeout, tArgs>>
thrVars == <<nofile_limit, max_threads, lastT, sem>>
cliVars == <<auto_nets, nauto, ret_code, opt_ret, status, nU>>
regHist == <<addCalls, freed>>
vars == <<pc, cur, optVars, regVars, flagVars, unitVars, mainHist, envVars, netVars,
          thrVars, cliVars, regHist>>

\* ------------------------------------------------------- IP range registry

\* The ranges of the list that starts at node p, in list order.
RECURSIVE Walk(_, _, _)
Walk(heap, p, fuel) ==
    IF p = NULL \/ fuel = 0 THEN <<>>
    ELSE <<[start_ip |-> heap[p].start_ip, end_ip |-> heap[p].end_ip]>>
         \o Walk(heap, heap[p].next, fuel - 1)

\* The registry as the probes see it: the list from the head.
Registry == Walk(nodes, ip_ranges, Len(nodes))

Reg == [nodes |-> nodes, ip_ranges |-> ip_ranges,
        ip_ranges_last |-> ip_ranges_last, ip_ranges_count |-> ip_ranges_count]

\* Faulty variant of add_ip_range: no early return when both are NULL.
add_ip_range_records_empty(r, s, e) ==
    LET s1 == IF s = NULL THEN e ELSE s
        e1 == IF e = NULL THEN s1 ELSE e
        p  == Len(r.nodes) + 1
        n0 == Append(r.nodes, [start_ip |-> s1, end_ip |-> e1, next |-> NULL])
        n1 == IF r.ip_ranges_last # NULL
              THEN [n0 EXCEPT ![r.ip_ranges_last].next = p]
              ELSE n0
    IN  [nodes |-> n1,
         ip_ranges |-> IF r.ip_ranges = NULL THEN p ELSE r.ip_ranges,
         ip_ranges_last |-> p,
         ip_ranges_count |-> r.ip_ranges_count + 1]

\* Faulty variant of add_ip_range: a missing start is not set to the end.
add_ip_range_end_only(r, s, e) ==
    IF s = NULL /\ e = NULL THEN r
    ELSE LET e1 == IF e = NULL THEN s ELSE e
             p  == Len(r.nodes) + 1
             n0 == Append(r.nodes, [start_ip |-> s, end_ip |-> e1, next |-> NULL])
             n1 == IF r.ip_ranges_last # NULL
                   THEN [n0 EXCEPT ![r.ip_ranges_last].next = p]
                   ELSE n0
         IN  [nodes |-> n1,
              ip_ranges |-> IF r.ip_ranges = NULL THEN p ELSE r.ip_ranges,
              ip_ranges_last |-> p,
              ip_ranges_count |-> r.ip_ranges_count + 1]

\* Faulty variant of add_ip_range: the new node is linked in at the head.
add_ip_range_push(r, s, e) ==
    IF s = NULL /\ e = NULL THEN r
    ELSE LET s1 == IF s = NULL THEN e ELSE s
             e1 == IF e = NULL THEN s1 ELSE e
             p  == Len(r.nodes) + 1
         IN  [nodes |-> Append(r.nodes, [start_ip |-> s1, end_ip |-> e1,
                                         next |-> r.ip_ranges]),
              ip_ranges |-> p,
              ip_ranges_last |-> IF r.ip_ranges_last = NULL THEN p ELSE r.ip_ranges_last,
              ip_ranges_count |-> r.ip_ranges_count + 1]

\* Faulty variant of add_ip_range: an absent endpoint stays absent.
add_ip_range_as_given(r, s, e) ==
    IF s = NULL /\ e = NULL THEN r
    ELSE LET p  == Len(r.nodes) + 1
             n0 == Append(r.nodes, [start_ip |-> s, end_ip |-> e, next |-> NULL])
             n1 == IF r.ip_ranges_last # NULL
                   THEN [n0 EXCEPT ![r.ip_ranges_last].next = p]
                   ELSE n0
         IN  [nodes |-> n1,
              ip_ranges |-> IF r.ip_ranges = NULL THEN p ELSE r.ip_ranges,
              ip_ranges_last |-> p,
              ip_ranges_count |-> r.ip_ranges_count + 1]

\* add_ip_range(start_ip, end_ip) on registry r: the registry afterwards.
add_ip_range(r, s, e) ==
    IF s = NULL /\ e = NULL THEN r
    ELSE LET s1 == IF s = NULL THEN e ELSE s
             e1 == IF e = NULL THEN s1 ELSE e
             p  == Len(r.nodes) + 1
             n0 == Append(r.nodes, [start_ip |-> s1, end_ip |-> e1, next |-> NULL])
             n1 == IF r.ip_ranges_last # NULL
                   THEN [n0 EXCEPT ![r.ip_ranges_last].next = p]
                   ELSE n0
         IN  [nodes |-> n1,
              ip_ranges |-> IF r.ip_ranges = NULL THEN p ELSE r.ip_ranges,
              ip_ranges_last |-> p,
              ip_ranges_count |-> r.ip_ranges_count + 1]

\* The value add_ip_range() returns.
add_ip_range_ret(r, s, e) == add_ip_range(r, s, e).ip_ranges_count

SetReg(r) ==
    /\ nodes' = r.nodes
    /\ ip_ranges' = r.ip_ranges
    /\ ip_ranges_last' = r.ip_ranges_last
    /\ ip_ranges_count' = r.ip_ranges_count

\* One call add_ip_range(start_ip, end_ip) as main() makes them: each address
\* given is a string of its own (strdup, nutscan_cidr_to_ip), or NULL.
AddRange ==
    /\ pc = "opts" /\ Len(addCalls) < MaxAdds
    /\ \E hs, he \in BOOLEAN :
        LET s == IF hs THEN nalloc + 1 ELSE NULL
            e == IF he THEN nalloc + (IF hs THEN 2 ELSE 1) ELSE NULL
        IN  /\ SetReg(add_ip_range(Reg, s, e))
            /\ addCalls' = Append(addCalls, [start_ip |-> s, end_ip |-> e,
                                             ret |-> add_ip_range_ret(Reg, s, e)])
            /\ nalloc' = nalloc + (IF hs THEN 1 ELSE 0) + (IF he THEN 1 ELSE 0)
    /\ UNCHANGED <<pc, cur, nopts, supplied, start_ip, end_ip, flagVars, unitVars,
                   mainHist, envVars, netVars, thrVars, cliVars, freed>>

\* ------------------------------------------- option loop: address options

\* The pending buffer and the registry, as one value the cases work on.
Pending == [start_ip |-> start_ip, end_ip |-> end_ip, reg |-> Reg]

\* The "save whatever we have" block: add_ip_range(), then clear both slots.
SaveAndClear(st) ==
    [start_ip |-> NULL, end_ip |-> NULL,
     reg |-> add_ip_range(st.reg, st.start_ip, st.end_ip)]

\* Faulty variant of case_s: a pending start is overwritten, not saved.
case_s_overwrite(st, a) ==
    LET st2 == [st EXCEPT !.start_ip = a]
    IN  IF st2.end_ip # NULL THEN SaveAndClear(st2) ELSE st2

\* Faulty variant of case_s: the start is held even when an end is pending.
case_s_hold(st, a) ==
    LET st1 == IF st.start_ip # NULL THEN SaveAndClear(st) ELSE st
    IN  [st1 EXCEPT !.start_ip = a]

\* case 's' with optarg duplicated into allocation a.
case_s(st, a) ==
    LET st1 == IF st.start_ip # NULL THEN SaveAndClear(st) ELSE st
        st2 == [st1 EXCEPT !.start_ip = a]
    IN  IF st2.end_ip # NULL THEN SaveAndClear(st2) ELSE st2

\* Faulty variant of case_e: the end is held even when a start is pending.
case_e_hold(st, a) ==
    LET st1 == IF st.end_ip # NULL THEN SaveAndClear(st) ELSE st
    IN  [st1 EXCEPT !.end_ip = a]

\* case 'e' with optarg duplicated into allocation a.
case_e(st, a) ==
    LET st1 == IF st.end_ip # NULL THEN SaveAndClear(st) ELSE st
        st2 == [st1 EXCEPT !.end_ip = a]
    IN  IF st2.start_ip # NULL THEN SaveAndClear(st2) ELSE st2

\* nutscan_cidr_to_ip(cidr, &start_ip, &end_ip): two fresh strings for a
\* well-formed CIDR, both pointers NULL for a malformed one.
nutscan_cidr_to_ip(st, ok, a) ==
    IF ok THEN [st EXCEPT !.start_ip = a, !.end_ip = a + 1]
    ELSE [st EXCEPT !.start_ip = NULL, !.end_ip = NULL]

\* Faulty variant of case_m_cidr: a pending endpoint is left pending.
case_m_cidr_no_flush(st, ok, a) ==
    SaveAndClear(nutscan_cidr_to_ip(st, ok, a))

\* Faulty variant of case_m_cidr: a CIDR that does not parse is recorded as
\* the single address a.
case_m_cidr_as_address(st, ok, a) ==
    LET st1 == IF st.start_ip # NULL \/ st.end_ip # NULL
               THEN SaveAndClear(st) ELSE st
    IN  IF ok THEN SaveAndClear(nutscan_cidr_to_ip(st1, ok, a))
        ELSE SaveAndClear([st1 EXCEPT !.start_ip = a])

\* case 'm' with a CIDR argument.
case_m_cidr(st, ok, a) ==
    LET st1 == IF st.start_ip # NULL \/ st.end_ip # NULL
               THEN SaveAndClear(st) ELSE st
    IN  SaveAndClear(nutscan_cidr_to_ip(st1, ok, a))

\* The flush after the option loop.
final_flush(st) ==
    IF st.start_ip # NULL \/ st.end_ip # NULL THEN SaveAndClear(st) ELSE st

SetPending(st) ==
    /\ start_ip' = st.start_ip
    /\ end_ip' = st.end_ip
    /\ SetReg(st.reg)

Opt_s ==
    /\ pc = "opts" /\ nopts < MaxOpts
    /\ SetPending(case_s(Pending, nalloc + 1))
    /\ nalloc' = nalloc + 1
    /\ nopts' = nopts + 1
    /\ supplied' = Append(supplied, [flag |-> "s", addr |-> nalloc + 1])
    /\ UNCHANGED <<pc, cur, flagVars, unitVars, mainHist, envVars, netVars, regHist, cliVars, thrVars>>

Opt_e ==
    /\ pc = "opts" /\ nopts < MaxOpts
    /\ SetPending(case_e(Pending, nalloc + 1))
    /\ nalloc' = nalloc + 1
    /\ nopts' = nopts + 1
    /\ supplied' = Append(supplied, [flag |-> "e", addr |-> nalloc + 1])
    /\ UNCHANGED <<pc, cur, flagVars, unitVars, mainHist, envVars, netVars, regHist, cliVars, thrVars>>

Opt_m ==
    /\ pc = "opts" /\ nopts < MaxOpts
    /\ \E ok \in BOOLEAN :
        /\ SetPending(case_m_cidr(Pending, ok, nalloc + 1))
        /\ nalloc' = IF ok THEN nalloc + 2 ELSE nalloc
        /\ supplied' = Append(supplied,
                         [flag |-> "m", addr |-> IF ok THEN nalloc + 1 ELSE NULL])
    /\ nopts' = nopts + 1
    /\ UNCHANGED <<pc, cur, flagVars, unitVars, mainHist, envVars, netVars, regHist, cliVars, thrVars>>

\* getopt_long() returns -1: the option loop ends.
EndOfOptions ==
    /\ pc = "opts"
    /\ pc' = "sem_init"
    /\ UNCHANGED <<cur, optVars, regVars, flagVars, unitVars, mainHist, envVars, netVars, regHist, cliVars, thrVars>>

\* ---------------------------------------------- option loop: -m auto*

\* auto_nets for "auto", "auto4", "auto6".
auto_scope(mode) ==
    CASE mode = "auto" -> 46
      [] mode = "auto4" -> 4
      [] mode = "auto6" -> 6

\* The flags of ifa_flags the loop looks at.
IFF == {"IFF_LOOPBACK", "IFF_UP", "IFF_RUNNING", "IFF_BROADCAST"}

\* Faulty variant of if_selected: IFF_RUNNING is not tested.
if_selected_not_running(an, ifa) ==
    /\ ifa.family \in {"AF_INET", "AF_INET6"}
    /\ "IFF_LOOPBACK" \notin ifa.flags
    /\ "IFF_UP" \in ifa.flags
    /\ "IFF_BROADCAST" \in ifa.flags
    /\ \/ an = 46
       \/ an = 4 /\ ifa.family = "AF_INET"
       \/ an = 6 /\ ifa.family = "AF_INET6"

\* The test an interface address passes to have its subnet recorded: of
\* family AF_INET or AF_INET6, not loopback, up, running, broadcast, and of
\* a family in the scope an.
if_selected(an, ifa) ==
    /\ ifa.family \in {"AF_INET", "AF_INET6"}
    /\ "IFF_LOOPBACK" \notin ifa.flags
    /\ "IFF_UP" \in ifa.flags
    /\ "IFF_RUNNING" \in ifa.flags
    /\ "IFF_BROADCAST" \in ifa.flags
    /\ \/ an = 46
       \/ an = 4 /\ ifa.family = "AF_INET"
       \/ an = 6 /\ ifa.family = "AF_INET6"

\* The "for (ifa = ifap; ...)" loop: nutscan_cidr_to_ip() and add_ip_range()
\* for each selected interface; a is the last string allocated so far.
RECURSIVE ifaddrs_loop(_, _, _, _)
ifaddrs_loop(st, an, ifs, a) ==
    IF ifs = <<>> THEN [st |-> st, nalloc |-> a]
    ELSE IF if_selected(an, Head(ifs))
    THEN ifaddrs_loop(SaveAndClear(nutscan_cidr_to_ip(st, TRUE, a + 1)), an, Tail(ifs), a + 2)
    ELSE ifaddrs_loop(st, an, Tail(ifs), a)

\* Faulty variant of case_m_auto: auto_nets is not tested.
case_m_auto_again(st, an, mode, ifs, a) ==
    LET st1 == IF st.start_ip # NULL \/ st.end_ip # NULL
               THEN SaveAndClear(st) ELSE st
        r == ifaddrs_loop(st1, auto_scope(mode), ifs, a)
    IN  [st |-> r.st, nalloc |-> r.nalloc, auto_nets |-> auto_scope(mode)]

\* case 'm' with "auto", "auto4" or "auto6", getifaddrs() reporting ifs: the
\* pending buffer and registry, the strings allocated and auto_nets afterwards.
case_m_auto(st, an, mode, ifs, a) ==
    LET st1 == IF st.start_ip # NULL \/ st.end_ip # NULL
               THEN SaveAndClear(st) ELSE st
    IN  IF an # 0
        THEN \* Duplicate request for connected subnet scan ignored
             [st |-> st1, nalloc |-> a, auto_nets |-> an]
        ELSE LET r == ifaddrs_loop(st1, auto_scope(mode), ifs, a)
             IN  [st |-> r.st, nalloc |-> r.nalloc, auto_nets |-> auto_scope(mode)]

\* What getifaddrs() may report: per entry the family of ifa_addr ("other":
\* any other family, or no address) and the flags set in ifa_flags.
Interface == [family : {"AF_INET", "AF_INET6", "other"}, flags : SUBSET IFF]
IfLists == UNION {[1..n -> Interface] : n \in 0..MaxIfs}
\* The lists of interface addresses with no flag set or exactly the flags
\* of an interface whose subnet is recorded.
PlainIfLists ==
    {l \in IfLists : \A i \in 1..Len(l) :
        l[i].flags \in {{}, {"IFF_UP", "IFF_RUNNING", "IFF_BROADCAST"}}}

Opt_m_auto ==
    /\ pc = "opts" /\ nopts < MaxAutoOpts
    /\ \E mode \in {"auto", "auto4", "auto6"} :
        /\ supplied' = Append(supplied, [flag |-> mode, addr |-> NULL])
        /\ \/ LET r == case_m_auto(Pending, auto_nets, mode, ifap, nalloc)
              IN  /\ SetPending(r.st)
                  /\ nalloc' = r.nalloc
                  /\ auto_nets' = r.auto_nets
                  /\ UNCHANGED <<pc, status>>
           \/ \* getifaddrs() fails: fatalx(EXIT_FAILURE)
              /\ auto_nets = 0
              /\ SetPending(final_flush(Pending))
              /\ auto_nets' = auto_scope(mode)
              /\ pc' = "exit"
              /\ status' = EXIT_FAILURE
              /\ UNCHANGED nalloc
    /\ nauto' = nauto + 1
    /\ nopts' = nopts + 1
    /\ opt_ret' = "m"
    /\ UNCHANGED <<cur, flagVars, unitVars, mainHist, envVars, netVars, regHist, thrVars,
                   ret_code, nU>>

\* Address options -s and -e on a command line that holds -m auto*.
Opt_addr ==
    /\ nopts < MaxAutoOpts
    /\ (Opt_s \/ Opt_e)

\* -m with a CIDR on a command line that holds -m auto*.
Opt_m_cidr ==
    /\ nopts < MaxAutoOpts
    /\ Opt_m

\* ------------------------------------------ option loop: protocol options

\* The option that requests each protocol.
OptLetter ==
    [USB |-> "U", SNMP |-> "S", XML |-> "M", NUT |-> "O", NUT_SIMULATION |-> "n",
     AVAHI |-> "A", IPMI |-> "I", EATON_SERIAL |-> "E"]

\* The protocols whose option tests nutscan_avail_* ("goto display_help").
CheckedAtOption == {"USB", "SNMP", "XML", "AVAHI", "IPMI"}

\* Faulty variant of case_U: the level is raised without the test.
case_U_unbounded(lvl) == lvl + 1

\* case 'U': cli_link_detail_level after one more -U.
case_U(lvl) == IF lvl < 3 THEN lvl + 1 ELSE lvl

\* Faulty variant of DisplayHelp: the usage text is shown and the option
\* loop goes on.
DisplayHelp_go_on(opt, rc) ==
    /\ opt_ret' = opt
    /\ ret_code' = rc
    /\ status' = rc
    /\ pc' = pc

\* display_help: show_usage(), then "return ret_code" with ret_code as rc.
DisplayHelp(opt, rc) ==
    /\ opt_ret' = opt
    /\ ret_code' = rc
    /\ status' = rc
    /\ pc' = "exit"

\* case 'U', 'S', 'M', 'O', 'n', 'A', 'I', 'E'.
Opt_proto(k) ==
    /\ pc = "opts" /\ nopts < MaxCliOpts
    /\ IF k \in CheckedAtOption /\ ~nutscan_avail[k]
       THEN /\ DisplayHelp(OptLetter[k], ret_code)
            /\ UNCHANGED <<nopts, allow, cli_link_detail_level, nU>>
       ELSE /\ allow' = [allow EXCEPT ![k] = TRUE]
            /\ cli_link_detail_level' =
                  IF k = "USB" THEN case_U(cli_link_detail_level)
                  ELSE cli_link_detail_level
            /\ nU' = IF k = "USB" THEN nU + 1 ELSE nU
            /\ opt_ret' = OptLetter[k]
            /\ nopts' = nopts + 1
            /\ UNCHANGED <<pc, ret_code, status>>
    /\ UNCHANGED <<cur, nalloc, supplied, start_ip, end_ip, regVars, allow_all,
                   nutscan_avail, avail0, unitVars, mainHist, envVars, netVars, regHist, thrVars,
                   auto_nets, nauto>>

\* case 'C'.
Opt_C ==
    /\ pc = "opts" /\ nopts < MaxCliOpts
    /\ allow_all' = TRUE
    /\ opt_ret' = "C"
    /\ nopts' = nopts + 1
    /\ UNCHANGED <<pc, cur, nalloc, supplied, start_ip, end_ip, regVars, allow,
                   cli_link_detail_level, nutscan_avail, avail0, unitVars, mainHist,
                   envVars, netVars, regHist, thrVars, auto_nets, nauto, ret_code, status, nU>>

\* case '?': an unknown option or a missing argument.
Opt_bad ==
    /\ pc = "opts"
    /\ DisplayHelp("?", ERR_BAD_OPTION)
    /\ UNCHANGED <<cur, optVars, regVars, flagVars, unitVars, mainHist, envVars, netVars, regHist,
                   thrVars, auto_nets, nauto, nU>>

\* case 'h'.
Opt_h ==
    /\ pc = "opts"
    /\ DisplayHelp("h", ret_code)
    /\ UNCHANGED <<cur, optVars, regVars, flagVars, unitVars, mainHist, envVars, netVars, regHist,
                   thrVars, auto_nets, nauto, nU>>

\* case 'V' and case 'a': exit(EXIT_SUCCESS).
Opt_info ==
    /\ pc = "opts"
    /\ \E o \in {"V", "a"} : opt_ret' = o
    /\ status' = EXIT_SUCCESS
    /\ pc' = "exit"
    /\ UNCHANGED <<cur, optVars, regVars, flagVars, unitVars, mainHist, envVars, netVars, regHist,
                   thrVars, auto_nets, nauto, ret_code, nU>>

\* ------------------------------------------------------ timeout (-t)

\* useconds_t is an unsigned integer of 32 bits; a value is held as its two
\* halves of 16 bits, hi * 2^16 + lo.
Half == 2^16
Zero == [hi |-> 0, lo |-> 0]

\* (useconds_t)v for an integer v.
to_useconds(v) == [hi |-> (v \div Half) % Half, lo |-> v % Half]

\* x * m in useconds_t, for 0 <= m < 2^15: the product modulo 2^32.
mul_useconds(x, m) ==
    [hi |-> (x.hi * m + (x.lo * m) \div Half) % Half, lo |-> (x.lo * m) % Half]

\* DEFAULT_NETWORK_TIMEOUT * 1000 * 1000, computed in int.
timeout_default == to_useconds(DEFAULT_NETWORK_TIMEOUT * 1000 * 1000)

\* case 't' with atol(optarg) = v: timeout afterwards.  "timeout <= 0" on an
\* unsigned value is "timeout == 0".
case_t(v) ==
    LET t == mul_useconds(mul_useconds(to_useconds(v), 1000), 1000)
    IN  IF t = Zero THEN timeout_default ELSE t

\* The values atol() gives for the arguments of -t: small ones of either
\* sign, the largest number of seconds whose microseconds fit 32 bits, the
\* next one, and +/- 2^26 (times 10^6 a multiple of 2^32).
TimeoutArgs == (-MaxTimeoutArg..MaxTimeoutArg) \cup {4294, 4295, 2^26, -(2^26)}

Opt_t ==
    /\ pc = "opts" /\ Len(tArgs) < MaxTimeoutOpts
    /\ \E v \in TimeoutArgs :
        /\ timeout' = case_t(v)
        /\ tArgs' = Append(tArgs, v)
    /\ opt_ret' = "t"
    /\ UNCHANGED <<pc, cur, optVars, regVars, flagVars, unitVars, mainHist, envVars,
                   regHist, thrVars, auto_nets, nauto, ret_code, status, nU>>

\* ------------------------------------------------ thread ceiling (-T, fd limit)

\* max_threads = rlim_cur, less the reservation when more than one is left.
clamp_to_nofile(L) ==
    IF L > RESERVE_FD_COUNT + 1 THEN L - RESERVE_FD_COUNT ELSE L

\* The test both clamps make on the soft limit L against a wanted count n.
exceeds_nofile(L, n) ==
    /\ L > 0
    /\ L > RESERVE_FD_COUNT
    /\ n > L - RESERVE_FD_COUNT
    /\ L < SIZE_MAX

\* main() start: max_threads after a successful getrlimit() reporting L.
startup_max_threads(mt, L) ==
    IF exceeds_nofile(L, mt) THEN clamp_to_nofile(L) ELSE mt

\* Faulty variant of case_T: the value strtol() returns is taken when it is
\* not negative, whatever was left over.
case_T_unchecked(mt, L, val, complete) ==
    IF val >= 0 /\ val < SIZE_MAX
    THEN IF exceeds_nofile(L, val) THEN clamp_to_nofile(L) ELSE val
    ELSE mt

\* case 'T': max_threads after -T with strtol() value val; complete says that
\* no characters were left over.
case_T(mt, L, val, complete) ==
    IF complete /\ val > 0 /\ val < SIZE_MAX
    THEN IF exceeds_nofile(L, val) THEN clamp_to_nofile(L) ELSE val
    ELSE mt

GetRlimit ==
    /\ pc = "rlimit"
    /\ \/ /\ nofile_limit' = 0            \* getrlimit() failed
          /\ UNCHANGED max_threads
       \/ /\ nofile_limit' = rlim_env
          /\ max_threads' = startup_max_threads(max_threads, rlim_env)
    /\ pc' = "opts"
    /\ UNCHANGED <<cur, optVars, regVars, flagVars, unitVars, mainHist, envVars, netVars, regHist, cliVars, lastT, sem>>

Opt_T ==
    /\ pc = "opts" /\ nopts < MaxT
    /\ \E val \in -1..LONG_MAX, complete \in BOOLEAN :
        /\ max_threads' = case_T(max_threads, nofile_limit, val, complete)
        /\ lastT' = IF complete /\ val > 0 /\ val < SIZE_MAX THEN val ELSE lastT
    /\ nopts' = nopts + 1
    /\ UNCHANGED <<pc, cur, nalloc, supplied, start_ip, end_ip, regVars, flagVars,
                   unitVars, mainHist, envVars, netVars, regHist, cliVars, nofile_limit, sem>>

\* Faulty variant of sem_init_value: max_threads is passed on as it is.
sem_init_value_unclamped(mt) == mt

\* The value sem_init() is given after the option loop.
sem_init_value(mt) == IF SIZE_MAX > UINT_MAX /\ mt > UINT_MAX THEN UINT_MAX - 1 ELSE mt

\* Faulty variant of SemInit: the library's gate is left as it is.
SemInit_keep ==
    /\ pc = "sem_init"
    /\ max_threads' = sem_init_value(max_threads)
    /\ pc' = "flush"
    /\ UNCHANGED <<cur, optVars, regVars, flagVars, unitVars, mainHist, envVars, netVars, regHist, cliVars,
                   nofile_limit, lastT, sem>>

\* sem_destroy() of the library's gate, then sem_init() with max_threads.
SemInit ==
    /\ pc = "sem_init"
    /\ max_threads' = sem_init_value(max_threads)
    /\ sem' = [state |-> "init", value |-> sem_init_value(max_threads) % (UINT_MAX + 1),
               by |-> "main"]
    /\ pc' = "flush"
    /\ UNCHANGED <<cur, optVars, regVars, flagVars, unitVars, mainHist, envVars, netVars, regHist, cliVars,
                   nofile_limit, lastT>>

\* ------------------------------------------- after the loop: flush, allow_*

FinalFlush ==
    /\ pc = "flush"
    /\ SetPending(final_flush(Pending))
    /\ pc' = "allow"
    /\ UNCHANGED <<cur, nopts, nalloc, supplied, flagVars, unitVars, mainHist,
                   envVars, netVars, regHist, cliVars, thrVars>>

\* Faulty variant of allow_all_default: allow_eaton_serial is not tested.
allow_all_default_seven(al, all) ==
    IF \A k \in KindSet \ {"EATON_SERIAL"} : ~al[k] THEN TRUE ELSE all

\* allow_all after the test that no protocol was requested.
allow_all_default(al, all) ==
    IF \A k \in KindSet : ~al[k] THEN TRUE ELSE all

\* The allow_* flags after "if (allow_all)": serial is not included.
allow_after(al, all) ==
    IF all THEN [k \in KindSet |-> IF k = "EATON_SERIAL" THEN al[k] ELSE TRUE]
    ELSE al

\* Faulty variant of link_level_after: a complete scan sets the level to 0.
link_level_after_reset(lvl, all) == IF all THEN 0 ELSE lvl

\* cli_link_detail_level after "if (allow_all)".
link_level_after(lvl, all) == IF all /\ lvl < 0 THEN lvl + 1 ELSE lvl

AllowAll ==
    /\ pc = "allow"
    /\ LET all == allow_all_default(allow, allow_all)
       IN  /\ allow_all' = all
           /\ allow' = allow_after(allow, all)
           /\ cli_link_detail_level' = link_level_after(cli_link_detail_level, all)
    /\ pc' = "dispatch"
    /\ cur' = 1
    /\ UNCHANGED <<optVars, regVars, nutscan_avail, avail0, unitVars, mainHist,
                   envVars, netVars, regHist, cliVars, thrVars>>

\* ------------------------------------------------------------ device lists

\* A nutscan_device_t pointer: the list it belongs to and the element it
\* points at (0 with the empty list: the NULL pointer).
NoDevice == [list |-> <<>>, cur |-> 0]

\* nutscan_rewind_device(): the head of the same list.
nutscan_rewind_device(d) ==
    [list |-> d.list, cur |-> IF d.list = <<>> THEN 0 ELSE 1]

\* nutscan_add_device_to_device(first, second): the devices of first followed
\* by those of second; the pointer returned is the last element.
nutscan_add_device_to_device(first, second) ==
    [list |-> first.list \o second.list, cur |-> Len(first.list) + Len(second.list)]

\* What the probe of kind k returns for range node r (0: no range given):
\* one entry per device of found[r], the list rewound.
Probe(k, r) ==
    nutscan_rewind_device([list |-> [j \in 1..Len(found[r]) |-> <<k, found[r][j]>>],
                           cur |-> 0])

\* nutscan_scan_usb(scanopts): the devices found on the bus, each reported
\* with the details scanopts asks for.
nutscan_scan_usb(scanopts) ==
    nutscan_rewind_device([list |-> [j \in 1..Len(found[0]) |->
                                         <<"USB", scanopts, found[0][j]>>],
                           cur |-> 0])

\* run_usb(): the scan options for a link detail level, as <<report_bus,
\* report_busport, report_device, report_bcdDevice>>; <<>> is the NULL
\* pointer (library defaults).
usb_scanopts(level) ==
    CASE level = 0 -> <<0, 0, 0, 0>>
      [] level = 1 -> <<1, 1, 0, 0>>
      [] level = 2 -> <<1, 1, 1, 0>>
      [] level = 3 -> <<1, 1, 1, 1>>
      [] OTHER -> <<>>

\* What nutscan_scan_usb() may read as scan options through a pointer to the
\* int cli_link_detail_level: the object is not a nutscan_usb_t, the fields
\* past the int are whatever the memory holds.
UsbScanoptsRead == [1..4 -> {0, 1}]

\* accumulate() keeping one entry per device.
accumulate_distinct(acc, dev_ret) ==
    IF acc = NoDevice THEN dev_ret
    ELSE nutscan_rewind_device(nutscan_add_device_to_device(
            [list |-> SelectSeq(dev_ret.list,
                                LAMBDA d : \A i \in 1..Len(acc.list) : acc.list[i] # d),
             cur |-> 0],
            acc))

\* The loop body of run_snmp(), run_xml(), run_nut_old(), run_ipmi(): the
\* slot after the result dev_ret of one more range.
accumulate(acc, dev_ret) ==
    IF acc = NoDevice THEN dev_ret
    ELSE nutscan_rewind_device(nutscan_add_device_to_device(dev_ret, acc))

\* ------------------------------------------------------- protocol units

\* The protocols whose run function iterates the registry.
RangeScoped == {"SNMP", "XML", "NUT", "IPMI"}
\* main() skips these when no range was recorded.
NeedsRanges(k) == k \in {"SNMP", "NUT"}
\* These probe a default target when the registry is empty.
DefaultTarget(k) == k \in {"XML", "IPMI"}
\* Serial has no nutscan_avail_* flag.
AvailKinds == KindSet \ {"EATON_SERIAL"}
Avail(k) == IF k \in AvailKinds THEN nutscan_avail[k] ELSE TRUE

\* Faulty variant of Slot: run_ipmi() assigns the slot of XML.
Slot_shared(k) == IF k = "IPMI" THEN "XML" ELSE k

\* The slot dev[TYPE_*] the run function of kind k assigns.
Slot(k) == k

Finish(k) ==
    /\ unit' = [unit EXCEPT ![k] = "done"]
    /\ outOfOrder' = (outOfOrder \/ \E j \in KindSet :
                         KindIndex(j) < KindIndex(k) /\ unit[j] = "running")

NoArgs == [start_ip |-> NULL, end_ip |-> NULL]
ArgsOf(heap, p) == [start_ip |-> heap[p].start_ip, end_ip |-> heap[p].end_ip]

\* The "while (p)" loop of a range-scoped run function from node p on, with
\* slot value acc and the probe calls made so far: one probe call per node,
\* merged into the slot, then p = p->next.
RECURSIVE range_loop(_, _, _, _, _, _)
range_loop(k, heap, p, acc, made, fuel) ==
    IF p = NULL \/ fuel = 0 THEN [dev |-> acc, calls |-> made]
    ELSE range_loop(k, heap, heap[p].next,
                    accumulate(acc, Probe(k, p)),
                    Append(made, ArgsOf(heap, p)), fuel - 1)

\* Faulty variant of run: no default-target probe when ip_ranges is NULL.
run_always_loop(k, heap, head) ==
    IF k \in RangeScoped
    THEN range_loop(k, heap, head, NoDevice, <<>>, Len(heap))
    ELSE [dev |-> Probe(k, 0), calls |-> <<NoArgs>>]

\* A run function as a whole: the slot value it leaves and its probe calls.
\* run_xml() and run_ipmi() probe the default target when ip_ranges is NULL;
\* run_usb(), run_nut_simulation(), run_avahi() and run_eaton_serial() make
\* their one call.
run(k, heap, head) ==
    IF k \in RangeScoped /\ ~(head = NULL /\ DefaultTarget(k))
    THEN range_loop(k, heap, head, NoDevice, <<>>, Len(heap))
    ELSE IF k = "USB"
    THEN [dev |-> nutscan_scan_usb(usb_scanopts(cli_link_detail_level)),
          calls |-> <<NoArgs>>]
    ELSE [dev |-> Probe(k, 0), calls |-> <<NoArgs>>]

\* The unit of protocol k runs its function to the end.  It reads the
\* registry and writes only its slot; what main() can see of a unit that is
\* under way is that it has not finished.
Unit(k) ==
    /\ unit[k] = "running"
    /\ LET r == run(k, nodes, ip_ranges)
       IN  /\ dev' = [dev EXCEPT ![Slot(k)] = r.dev]
           /\ calls' = [calls EXCEPT ![k] = @ \o r.calls]
    /\ writers' = [writers EXCEPT ![Slot(k)] = @ \cup {k}]
    /\ Finish(k)
    /\ UNCHANGED <<pc, cur, optVars, regVars, flagVars, thread, nstarted,
                   mainHist, envVars, netVars, regHist, cliVars, thrVars>>

\* ---------------------------------------------------- main(): dispatch

\* Main moves on to the next protocol of the phase, or to the next phase.
Advance(next) ==
    IF cur < Len(Kinds) THEN /\ cur' = cur + 1 /\ pc' = pc
    ELSE /\ cur' = 1 /\ pc' = next

\* Faulty variant of DispatchGuard: the capability flag is not tested.
DispatchGuard_allow_only(k) == allow[k]

\* Faulty variant of DispatchGuard: a unit is started only while the gate
\* has room for it.
DispatchGuard_gated(k) ==
    allow[k] /\ Avail(k) /\ Cardinality({j \in KindSet : unit[j] = "running"}) < sem.value

\* "if (allow_x && nutscan_avail_x)"; for serial "if (allow_eaton_serial)".
DispatchGuard(k) == allow[k] /\ Avail(k)

\* What a failed pthread_create() may leave in thread[k]: anything, zero or
\* not.  Where the flag is cleared main() never reads the handle again, so
\* one value stands for all.
UndefinedHandle(k) == IF k \in AvailKinds THEN {1} ELSE {0, 1}

\* The dispatch block of one protocol.
Dispatch(k) ==
    /\ pc = "dispatch" /\ Kinds[cur] = k
    /\ IF ~DispatchGuard(k)
       THEN \* not requested or supported, SKIPPED
            UNCHANGED <<nutscan_avail, thread, unit, nstarted, createFailed>>
       ELSE IF NeedsRanges(k) /\ ip_ranges_count = 0
       THEN \* No IP range(s) requested, skipping
            /\ nutscan_avail' = [nutscan_avail EXCEPT ![k] = FALSE]
            /\ UNCHANGED <<thread, unit, nstarted, createFailed>>
       ELSE \/ \* pthread_create() succeeds
               /\ thread' = [thread EXCEPT ![k] = 1]
               /\ unit' = [unit EXCEPT ![k] = "running"]
               /\ nstarted' = [nstarted EXCEPT ![k] = @ + 1]
               /\ UNCHANGED <<nutscan_avail, createFailed>>
            \/ \* pthread_create() fails: thread[k] is left undefined; the
               \* flag is cleared, except for serial (return not checked)
               /\ Cardinality({j \in KindSet : createFailed[j]}) < MaxCreateFail
               /\ \E h \in UndefinedHandle(k) : thread' = [thread EXCEPT ![k] = h]
               /\ createFailed' = [createFailed EXCEPT ![k] = TRUE]
               /\ nutscan_avail' = IF k \in AvailKinds
                                   THEN [nutscan_avail EXCEPT ![k] = FALSE]
                                   ELSE nutscan_avail
               /\ UNCHANGED <<unit, nstarted>>
    /\ Advance("join")
    /\ UNCHANGED <<optVars, regVars, allow_all, allow, cli_link_detail_level, avail0,
                   dev, calls, writers, outOfOrder,
                   joinCalled, reported, released, readEarly, envVars, netVars, regHist, cliVars, thrVars>>

\* The dispatch block of one protocol in a build without HAVE_PTHREAD: the
\* run function is called in place; for USB nutscan_scan_usb() is called
\* with &cli_link_detail_level as its scan options.
DispatchInline(k) ==
    /\ pc = "dispatch" /\ Kinds[cur] = k
    /\ IF ~DispatchGuard(k)
       THEN UNCHANGED <<nutscan_avail, unit, dev, calls, writers, nstarted>>
       ELSE IF NeedsRanges(k) /\ ip_ranges_count = 0
       THEN /\ nutscan_avail' = [nutscan_avail EXCEPT ![k] = FALSE]
            /\ UNCHANGED <<unit, dev, calls, writers, nstarted>>
       ELSE /\ IF k = "USB"
               THEN /\ \E o \in UsbScanoptsRead :
                         dev' = [dev EXCEPT ![Slot(k)] = nutscan_scan_usb(o)]
                    /\ calls' = [calls EXCEPT ![k] = Append(@, NoArgs)]
               ELSE LET r == run(k, nodes, ip_ranges)
                    IN  /\ dev' = [dev EXCEPT ![Slot(k)] = r.dev]
                        /\ calls' = [calls EXCEPT ![k] = @ \o r.calls]
            /\ writers' = [writers EXCEPT ![Slot(k)] = @ \cup {k}]
            /\ unit' = [unit EXCEPT ![k] = "done"]
            /\ nstarted' = [nstarted EXCEPT ![k] = @ + 1]
            /\ UNCHANGED nutscan_avail
    /\ Advance("display")
    /\ UNCHANGED <<optVars, regVars, allow_all, allow, cli_link_detail_level, avail0,
                   thread, outOfOrder, mainHist, envVars, netVars, regHist, thrVars, cliVars>>

\* -------------------------------------------------------- main(): join

\* Faulty variant of JoinGuard: the serial unit is never joined.
JoinGuard_no_serial(k) == k # "EATON_SERIAL" /\ allow[k] /\ Avail(k) /\ thread[k] # 0

\* Faulty variant of JoinGuard: the capability flag is not tested.
JoinGuard_handle_only(k) == allow[k] /\ thread[k] # 0

\* "if (allow_x && nutscan_avail_x && thread[TYPE_X])".
JoinGuard(k) == allow[k] /\ Avail(k) /\ thread[k] # 0

\* The join block of one protocol: pthread_join() returns once the unit has
\* finished.  With a handle that names no thread (left by a failed
\* pthread_create()) the call is undefined: it returns or the process dies.
Join(k) ==
    /\ pc = "join" /\ Kinds[cur] = k
    /\ IF ~JoinGuard(k)
       THEN /\ Advance("display")
            /\ UNCHANGED joinCalled
       ELSE /\ joinCalled' = [joinCalled EXCEPT ![k] = TRUE]
            /\ \/ /\ unit[k] = "done"
                  /\ Advance("display")
               \/ /\ unit[k] = "none"
                  /\ \/ Advance("display")
                     \/ /\ pc' = "crashed"
                        /\ UNCHANGED cur
    /\ UNCHANGED <<optVars, regVars, flagVars, unitVars,
                   createFailed, reported, released, readEarly, envVars, netVars, regHist, cliVars, thrVars>>

\* ------------------------------------------------------ main(): report

\* Faulty variant of ReportOrder: SNMP is displayed before USB.
ReportOrder_swapped ==
    <<"SNMP", "USB", "XML", "NUT", "NUT_SIMULATION", "AVAHI", "IPMI", "EATON_SERIAL">>

\* The order of the display_func()/nutscan_free_device() pairs.
ReportOrder ==
    <<"USB", "SNMP", "XML", "NUT", "NUT_SIMULATION", "AVAHI", "IPMI", "EATON_SERIAL">>

\* display_func(dev[TYPE_X]).
Display(k) ==
    /\ pc = "display" /\ ReportOrder[cur] = k
    /\ reported' = Append(reported, [kind |-> k, list |-> dev[k].list])
    /\ readEarly' = (readEarly \/ unit[k] = "running")
    /\ pc' = "free_dev"
    /\ UNCHANGED <<cur, optVars, regVars, flagVars, unitVars,
                   createFailed, joinCalled, released, envVars, netVars, regHist, cliVars, thrVars>>

\* nutscan_free_device(dev[TYPE_X]).
FreeDevice(k) ==
    /\ pc = "free_dev" /\ ReportOrder[cur] = k
    /\ released' = Append(released, k)
    /\ readEarly' = (readEarly \/ unit[k] = "running")
    /\ IF cur < Len(ReportOrder) THEN /\ cur' = cur + 1 /\ pc' = "display"
       ELSE /\ cur' = 1 /\ pc' = "sem_destroy"
    /\ UNCHANGED <<optVars, regVars, flagVars, unitVars,
                   createFailed, joinCalled, reported, envVars, netVars, regHist, cliVars, thrVars>>

\* sem_destroy(nutscan_semaphore()).
SemDestroy ==
    /\ pc = "sem_destroy"
    /\ sem' = [sem EXCEPT !.state = "destroyed"]
    /\ pc' = "free_ranges"
    /\ UNCHANGED <<cur, optVars, regVars, flagVars, unitVars, mainHist, envVars, netVars, regHist, cliVars,
                   nofile_limit, max_threads, lastT>>

\* Faulty variant of free_range_strings: both strings are always freed.
free_range_strings_both(n) ==
    (IF n.start_ip # NULL THEN <<[what |-> "string", id |-> n.start_ip]>> ELSE <<>>)
    \o (IF n.end_ip # NULL THEN <<[what |-> "string", id |-> n.end_ip]>> ELSE <<>>)

\* The free() calls free_ip_ranges() makes for the strings of node n: one
\* when both point to the same string.
free_range_strings(n) ==
    IF n.start_ip = n.end_ip /\ n.start_ip # NULL
    THEN <<[what |-> "string", id |-> n.start_ip]>>
    ELSE (IF n.start_ip # NULL THEN <<[what |-> "string", id |-> n.start_ip]>> ELSE <<>>)
         \o (IF n.end_ip # NULL THEN <<[what |-> "string", id |-> n.end_ip]>> ELSE <<>>)

\* The "while (p)" loop of free_ip_ranges() from node p on: the free() calls
\* it makes, the strings of a node and then the node.
RECURSIVE free_ip_ranges_calls(_, _, _)
free_ip_ranges_calls(heap, p, fuel) ==
    IF p = NULL \/ fuel = 0 THEN <<>>
    ELSE free_range_strings(heap[p]) \o <<[what |-> "node", id |-> p]>>
         \o free_ip_ranges_calls(heap, heap[p].next, fuel - 1)

\* Without HAVE_PTHREAD there is no gate to destroy.
NoSemDestroy ==
    /\ pc = "sem_destroy"
    /\ pc' = "free_ranges"
    /\ UNCHANGED <<cur, optVars, regVars, flagVars, unitVars, mainHist, envVars, netVars,
                   regHist, thrVars, cliVars>>

\* free_ip_ranges(): every node released, the registry left empty.
free_ip_ranges(r) ==
    [nodes |-> <<>>, ip_ranges |-> NULL, ip_ranges_last |-> NULL, ip_ranges_count |-> 0]

\* nutscan_free(); free_ip_ranges(); return EXIT_SUCCESS.
FreeRanges ==
    /\ pc = "free_ranges"
    /\ SetReg(free_ip_ranges(Reg))
    /\ freed' = freed \o free_ip_ranges_calls(nodes, ip_ranges, Len(nodes))
    /\ pc' = "done"
    /\ status' = EXIT_SUCCESS
    /\ UNCHANGED <<cur, optVars, flagVars, unitVars, mainHist, envVars, netVars, addCalls, thrVars,
                   auto_nets, nauto, ret_code, opt_ret, nU>>

\* --------------------------------------------------------- specifications

NoKinds == [k \in KindSet |-> FALSE]
EmptyReg == [nodes |-> <<>>, ip_ranges |-> NULL, ip_ranges_last |-> NULL,
             ip_ranges_count |-> 0]
LibSem(mt) == [state |-> "init", value |-> mt % (UINT_MAX + 1), by |-> "lib"]

\* What no phase has touched before the units are dispatched.
UnitsIdle ==
    /\ thread = [k \in KindSet |-> 0]
    /\ unit = [k \in KindSet |-> "none"]
    /\ dev = [k \in KindSet |-> NoDevice]
    /\ calls = [k \in KindSet |-> <<>>]
    /\ writers = [k \in KindSet |-> {}]
    /\ nstarted = [k \in KindSet |-> 0]
    /\ outOfOrder = FALSE
    /\ createFailed = NoKinds
    /\ joinCalled = NoKinds
    /\ reported = <<>>
    /\ released = <<>>
    /\ readEarly = FALSE

\* A registry of n ranges, recorded by n calls of add_ip_range().
RECURSIVE RegistryOf(_)
RegistryOf(n) ==
    IF n = 0 THEN EmptyReg
    ELSE add_ip_range(RegistryOf(n - 1), 2 * n - 1, 2 * n)

\* The option loop over the address options, from the start of main() to the
\* first dispatch: no protocol option is given, every capability is there.
InitOpts ==
    /\ pc = "opts" /\ cur = 1
    /\ nopts = 0 /\ nalloc = 0 /\ supplied = <<>>
    /\ start_ip = NULL /\ end_ip = NULL
    /\ nodes = <<>> /\ ip_ranges = NULL /\ ip_ranges_last = NULL /\ ip_ranges_count = 0
    /\ allow_all = FALSE /\ allow = NoKinds /\ cli_link_detail_level = -1
    /\ nutscan_avail = [k \in AvailKinds |-> TRUE] /\ avail0 = nutscan_avail
    /\ UnitsIdle
    /\ found = [r \in 0..MaxRanges |-> <<>>]
    /\ timeout = timeout_default /\ tArgs = <<>>
    /\ ifap = <<>>
    /\ rlim_env = RLIM_INFINITY /\ nofile_limit = RLIM_INFINITY
    /\ default_threads = MaxDefaultThreads /\ max_threads = default_threads
    /\ lastT = 0 /\ sem = LibSem(max_threads)
    /\ auto_nets = 0 /\ nauto = 0 /\ ret_code = EXIT_SUCCESS /\ opt_ret = ""
    /\ status = EXIT_SUCCESS /\ nU = 0
    /\ addCalls = <<>> /\ freed = <<>>

NextOpts ==
    \/ Opt_s
    \/ Opt_e
    \/ Opt_m
    \/ EndOfOptions
    \/ SemInit
    \/ FinalFlush
    \/ AllowAll

SpecOpts == InitOpts /\ [][NextOpts]_vars

\* The thread ceiling: getrlimit() at the start of main(), the -T options,
\* the re-initialisation of the gate.
InitThreads ==
    /\ pc = "rlimit" /\ cur = 1
    /\ nopts = 0 /\ nalloc = 0 /\ supplied = <<>>
    /\ start_ip = NULL /\ end_ip = NULL
    /\ nodes = <<>> /\ ip_ranges = NULL /\ ip_ranges_last = NULL /\ ip_ranges_count = 0
    /\ allow_all = FALSE /\ allow = NoKinds /\ cli_link_detail_level = -1
    /\ nutscan_avail = [k \in AvailKinds |-> TRUE] /\ avail0 = nutscan_avail
    /\ UnitsIdle
    /\ found = [r \in 0..MaxRanges |-> <<>>]
    /\ timeout = timeout_default /\ tArgs = <<>>
    /\ ifap = <<>>
    /\ rlim_env \in 0..RLIM_INFINITY
    /\ nofile_limit = 0
    /\ default_threads \in 1..MaxDefaultThreads /\ max_threads = default_threads
    /\ lastT = 0 /\ sem = LibSem(max_threads)
    /\ auto_nets = 0 /\ nauto = 0 /\ ret_code = EXIT_SUCCESS /\ opt_ret = ""
    /\ status = EXIT_SUCCESS /\ nU = 0
    /\ addCalls = <<>> /\ freed = <<>>

NextThreads ==
    \/ GetRlimit
    \/ Opt_T
    \/ EndOfOptions
    \/ SemInit

SpecThreads == InitThreads /\ [][NextThreads]_vars

\* Dispatch, join, report and release, from the states the option loop leaves:
\* the allowed protocols are all seven (-C, or no protocol option) or up to
\* MaxProtoOpts requested one by one, each with or without serial (-E); the
\* registry holds up to MaxRanges ranges; up to MaxUnavail capabilities are
\* missing, all of them of allowed protocols (main() reads nutscan_avail_x
\* only after allow_x, so the flag of a protocol not allowed is never read).
Init ==
    /\ pc = "dispatch" /\ cur = 1
    /\ nopts = 0 /\ nalloc = 0 /\ supplied = <<>>
    /\ start_ip = NULL /\ end_ip = NULL
    /\ \E n \in 0..MaxRanges :
        /\ nodes = RegistryOf(n).nodes
        /\ ip_ranges = RegistryOf(n).ip_ranges
        /\ ip_ranges_last = RegistryOf(n).ip_ranges_last
        /\ ip_ranges_count = RegistryOf(n).ip_ranges_count
    /\ allow \in [KindSet -> BOOLEAN]
    /\ \E k \in KindSet : allow[k]
    /\ \/ \A k \in AvailKinds : allow[k]
       \/ Cardinality({k \in AvailKinds : allow[k]}) <= MaxProtoOpts
    /\ allow_all = (\A k \in AvailKinds : allow[k])
    /\ cli_link_detail_level = IF allow["USB"] THEN 0 ELSE -1
    /\ nutscan_avail \in [AvailKinds -> BOOLEAN]
    /\ Cardinality({k \in AvailKinds : ~nutscan_avail[k]}) <= MaxUnavail
    /\ \A k \in AvailKinds : ~nutscan_avail[k] => allow[k]
    /\ avail0 = nutscan_avail
    /\ UnitsIdle
    /\ found = [r \in 0..MaxRanges |-> <<r>>]
    /\ timeout = timeout_default /\ tArgs = <<>>
    /\ ifap = <<>>
    /\ rlim_env = RLIM_INFINITY /\ nofile_limit = RLIM_INFINITY
    /\ default_threads = MaxDefaultThreads
    /\ max_threads \in {1, default_threads}        \* -T 1, or no -T
    /\ lastT = IF max_threads = default_threads THEN 0 ELSE 1
    /\ sem = [state |-> "init", value |-> sem_init_value(max_threads), by |-> "main"]
    /\ auto_nets = 0 /\ nauto = 0 /\ ret_code = EXIT_SUCCESS /\ opt_ret = ""
    /\ status = EXIT_SUCCESS
    /\ nU = IF allow["USB"] /\ ~allow_all THEN 1 ELSE 0
    /\ addCalls = <<>> /\ freed = <<>>

Next ==
    \/ \E k \in KindSet : Dispatch(k)
    \/ \E k \in KindSet : Unit(k)
    \/ \E k \in KindSet : Join(k)
    \/ \E k \in KindSet : Display(k)
    \/ \E k \in KindSet : FreeDevice(k)
    \/ SemDestroy
    \/ FreeRanges

Spec == Init /\ [][Next]_vars

\* The option loop over the protocol options, from the start of main() to the
\* first dispatch or to the exit of the process: up to MaxUnavail
\* capabilities are missing.
InitCli ==
    /\ pc = "opts" /\ cur = 1
    /\ nopts = 0 /\ nalloc = 0 /\ supplied = <<>>
    /\ start_ip = NULL /\ end_ip = NULL
    /\ nodes = <<>> /\ ip_ranges = NULL /\ ip_ranges_last = NULL /\ ip_ranges_count = 0
    /\ allow_all = FALSE /\ allow = NoKinds /\ cli_link_detail_level = -1
    /\ nutscan_avail \in [AvailKinds -> BOOLEAN]
    /\ Cardinality({k \in AvailKinds : ~nutscan_avail[k]}) <= MaxUnavail
    /\ avail0 = nutscan_avail
    /\ UnitsIdle
    /\ found = [r \in 0..MaxRanges |-> <<>>]
    /\ timeout = timeout_default /\ tArgs = <<>>
    /\ ifap = <<>>
    /\ rlim_env = RLIM_INFINITY /\ nofile_limit = RLIM_INFINITY
    /\ default_threads = MaxDefaultThreads /\ max_threads = default_threads
    /\ lastT = 0 /\ sem = LibSem(max_threads)
    /\ auto_nets = 0 /\ nauto = 0 /\ ret_code = EXIT_SUCCESS /\ opt_ret = ""
    /\ status = EXIT_SUCCESS /\ nU = 0
    /\ addCalls = <<>> /\ freed = <<>>

NextCli ==
    \/ \E k \in KindSet : Opt_proto(k)
    \/ Opt_C
    \/ Opt_bad
    \/ Opt_h
    \/ Opt_info
    \/ EndOfOptions
    \/ SemInit
    \/ FinalFlush
    \/ AllowAll

SpecCli == InitCli /\ [][NextCli]_vars

\* The registry by itself: add_ip_range() called up to MaxAdds times with
\* every combination of present and absent endpoints, then the scan of the
\* range-scoped protocols (as after -S -M -O -I) and the release.
InitRegistry ==
    /\ pc = "opts" /\ cur = 1
    /\ nopts = 0 /\ nalloc = 0 /\ supplied = <<>>
    /\ start_ip = NULL /\ end_ip = NULL
    /\ nodes = <<>> /\ ip_ranges = NULL /\ ip_ranges_last = NULL /\ ip_ranges_count = 0
    /\ allow_all = FALSE /\ allow = [k \in KindSet |-> k \in RangeScoped]
    /\ cli_link_detail_level = -1
    /\ nutscan_avail = [k \in AvailKinds |-> TRUE] /\ avail0 = nutscan_avail
    /\ UnitsIdle
    /\ found = [r \in 0..MaxAdds |-> <<r>>]
    /\ timeout = timeout_default /\ tArgs = <<>>
    /\ ifap = <<>>
    /\ rlim_env = RLIM_INFINITY /\ nofile_limit = RLIM_INFINITY
    /\ default_threads = MaxDefaultThreads /\ max_threads = default_threads
    /\ lastT = 0 /\ sem = LibSem(max_threads)
    /\ auto_nets = 0 /\ nauto = 0 /\ ret_code = EXIT_SUCCESS /\ opt_ret = "I"
    /\ status = EXIT_SUCCESS /\ nU = 0
    /\ addCalls = <<>> /\ freed = <<>>

NextRegistry ==
    \/ AddRange
    \/ EndOfOptions
    \/ SemInit
    \/ FinalFlush
    \/ AllowAll
    \/ \E k \in KindSet : Dispatch(k)
    \/ \E k \in KindSet : Unit(k)
    \/ \E k \in KindSet : Join(k)
    \/ \E k \in KindSet : Display(k)
    \/ \E k \in KindSet : FreeDevice(k)
    \/ SemDestroy
    \/ FreeRanges

SpecRegistry == InitRegistry /\ [][NextRegistry]_vars

\* The option loop over -s, -e and -m auto/auto4/auto6.
InitAuto ==
    /\ pc = "opts" /\ cur = 1
    /\ nopts = 0 /\ nalloc = 0 /\ supplied = <<>>
    /\ start_ip = NULL /\ end_ip = NULL
    /\ nodes = <<>> /\ ip_ranges = NULL /\ ip_ranges_last = NULL /\ ip_ranges_count = 0
    /\ allow_all = FALSE /\ allow = NoKinds /\ cli_link_detail_level = -1
    /\ nutscan_avail = [k \in AvailKinds |-> TRUE] /\ avail0 = nutscan_avail
    /\ UnitsIdle
    /\ found = [r \in 0..MaxRanges |-> <<>>]
    /\ timeout = timeout_default /\ tArgs = <<>>
    /\ ifap \in PlainIfLists
    /\ rlim_env = RLIM_INFINITY /\ nofile_limit = RLIM_INFINITY
    /\ default_threads = MaxDefaultThreads /\ max_threads = default_threads
    /\ lastT = 0 /\ sem = LibSem(max_threads)
    /\ auto_nets = 0 /\ nauto = 0 /\ ret_code = EXIT_SUCCESS /\ opt_ret = ""
    /\ status = EXIT_SUCCESS /\ nU = 0
    /\ addCalls = <<>> /\ freed = <<>>

NextAuto ==
    \/ Opt_addr
    \/ Opt_m_auto
    \/ EndOfOptions
    \/ SemInit
    \/ FinalFlush
    \/ AllowAll

SpecAuto == InitAuto /\ [][NextAuto]_vars

\* The first -m auto/auto4/auto6 and its repetitions, with getifaddrs()
\* reporting every list of up to MaxIfs interface addresses, on a command
\* line that starts with these options or with one -s before them.
InitIfs ==
    /\ pc = "opts" /\ cur = 1
    /\ \/ /\ nopts = 0 /\ nalloc = 0 /\ supplied = <<>> /\ start_ip = NULL
       \/ /\ nopts = 1 /\ nalloc = 1 /\ supplied = <<[flag |-> "s", addr |-> 1]>>
          /\ start_ip = 1
    /\ end_ip = NULL
    /\ nodes = <<>> /\ ip_ranges = NULL /\ ip_ranges_last = NULL /\ ip_ranges_count = 0
    /\ allow_all = FALSE /\ allow = NoKinds /\ cli_link_detail_level = -1
    /\ nutscan_avail = [k \in AvailKinds |-> TRUE] /\ avail0 = nutscan_avail
    /\ UnitsIdle
    /\ found = [r \in 0..MaxRanges |-> <<>>]
    /\ timeout = timeout_default /\ tArgs = <<>>
    /\ ifap \in IfLists
    /\ rlim_env = RLIM_INFINITY /\ nofile_limit = RLIM_INFINITY
    /\ default_threads = MaxDefaultThreads /\ max_threads = default_threads
    /\ lastT = 0 /\ sem = LibSem(max_threads)
    /\ auto_nets = 0 /\ nauto = 0 /\ ret_code = EXIT_SUCCESS
    /\ opt_ret = IF nopts = 0 THEN "" ELSE "s"
    /\ status = EXIT_SUCCESS /\ nU = 0
    /\ addCalls = <<>> /\ freed = <<>>

NextIfs ==
    \/ Opt_m_auto
    \/ EndOfOptions
    \/ SemInit
    \/ FinalFlush
    \/ AllowAll

SpecIfs == InitIfs /\ [][NextIfs]_vars

\* The whole of main() over the options -U, -n, -C, -h, -V, -a and an
\* unknown option, with USB support there or missing: the option loop, then
\* either the exit or the scan, the reports and the release.
InitMain ==
    /\ pc = "opts" /\ cur = 1
    /\ nopts = 0 /\ nalloc = 0 /\ supplied = <<>>
    /\ start_ip = NULL /\ end_ip = NULL
    /\ nodes = <<>> /\ ip_ranges = NULL /\ ip_ranges_last = NULL /\ ip_ranges_count = 0
    /\ allow_all = FALSE /\ allow = NoKinds /\ cli_link_detail_level = -1
    /\ \E usb \in BOOLEAN : nutscan_avail = [k \in AvailKinds |-> k = "USB" => usb]
    /\ avail0 = nutscan_avail
    /\ UnitsIdle
    /\ found = [r \in 0..MaxRanges |-> <<r>>]
    /\ timeout = timeout_default /\ tArgs = <<>>
    /\ ifap = <<>>
    /\ rlim_env = RLIM_INFINITY /\ nofile_limit = RLIM_INFINITY
    /\ default_threads = MaxDefaultThreads /\ max_threads = default_threads
    /\ lastT = 0 /\ sem = LibSem(max_threads)
    /\ auto_nets = 0 /\ nauto = 0 /\ ret_code = EXIT_SUCCESS /\ opt_ret = ""
    /\ status = EXIT_SUCCESS /\ nU = 0
    /\ addCalls = <<>> /\ freed = <<>>

NextMain ==
    \/ \E k \in {"USB", "NUT_SIMULATION"} : Opt_proto(k)
    \/ Opt_C
    \/ Opt_bad
    \/ Opt_h
    \/ Opt_info
    \/ EndOfOptions
    \/ SemInit
    \/ FinalFlush
    \/ AllowAll
    \/ \E k \in KindSet : Dispatch(k)
    \/ \E k \in KindSet : Unit(k)
    \/ \E k \in KindSet : Join(k)
    \/ \E k \in KindSet : Display(k)
    \/ \E k \in KindSet : FreeDevice(k)
    \/ SemDestroy
    \/ FreeRanges

SpecMain == InitMain /\ [][NextMain]_vars

\* The build without HAVE_PTHREAD: the run functions are called one after
\* the other from main(), from the same states as Spec.
InitSeq == Init

NextSeq ==
    \/ \E k \in KindSet : DispatchInline(k)
    \/ \E k \in KindSet : Display(k)
    \/ \E k \in KindSet : FreeDevice(k)
    \/ NoSemDestroy
    \/ FreeRanges

SpecSeq == InitSeq /\ [][NextSeq]_vars

\* Spec under fair scheduling, with no -T given: main() keeps running and
\* every unit that was started keeps running, so a probe call that returns
\* is followed by the next step of its unit.
InitFair == Init /\ max_threads = default_threads

SpecFair ==
    /\ InitFair /\ [][Next]_vars
    /\ WF_vars(\E k \in KindSet : Dispatch(k))
    /\ \A k \in KindSet : WF_vars(Unit(k))
    /\ WF_vars(\E k \in KindSet : Join(k))
    /\ WF_vars(\E k \in KindSet : Display(k))
    /\ WF_vars(\E k \in KindSet : FreeDevice(k))
    /\ WF_vars(SemDestroy)
    /\ WF_vars(FreeRanges)

\* The option loop over all the address options: -s, -e, -m with a CIDR
\* and -m auto/auto4/auto6, getifaddrs() reporting up to MaxIfs IPv4
\* addresses of interfaces that are up, running and broadcast.
InitAddr ==
    /\ pc = "opts" /\ cur = 1
    /\ nopts = 0 /\ nalloc = 0 /\ supplied = <<>>
    /\ start_ip = NULL /\ end_ip = NULL
    /\ nodes = <<>> /\ ip_ranges = NULL /\ ip_ranges_last = NULL /\ ip_ranges_count = 0
    /\ allow_all = FALSE /\ allow = NoKinds /\ cli_link_detail_level = -1
    /\ nutscan_avail = [k \in AvailKinds |-> TRUE] /\ avail0 = nutscan_avail
    /\ UnitsIdle
    /\ found = [r \in 0..MaxRanges |-> <<>>]
    /\ timeout = timeout_default /\ tArgs = <<>>
    /\ \E n \in 0..MaxIfs :
          ifap = [i \in 1..n |-> [family |-> "AF_INET",
                                  flags |-> {"IFF_UP", "IFF_RUNNING", "IFF_BROADCAST"}]]
    /\ rlim_env = RLIM_INFINITY /\ nofile_limit = RLIM_INFINITY
    /\ default_threads = MaxDefaultThreads /\ max_threads = default_threads
    /\ lastT = 0 /\ sem = LibSem(max_threads)
    /\ auto_nets = 0 /\ nauto = 0 /\ ret_code = EXIT_SUCCESS /\ opt_ret = ""
    /\ status = EXIT_SUCCESS /\ nU = 0
    /\ addCalls = <<>> /\ freed = <<>>

NextAddr ==
    \/ Opt_addr
    \/ Opt_m_cidr
    \/ Opt_m_auto
    \/ EndOfOptions
    \/ SemInit
    \/ FinalFlush
    \/ AllowAll

SpecAddr == InitAddr /\ [][NextAddr]_vars

\* The -t options, then the scan of the protocols that are handed the
\* timeout and need no range (as after -M -A) and the release.
InitTimeout ==
    /\ pc = "opts" /\ cur = 1
    /\ nopts = 0 /\ nalloc = 0 /\ supplied = <<>>
    /\ start_ip = NULL /\ end_ip = NULL
    /\ nodes = <<>> /\ ip_ranges = NULL /\ ip_ranges_last = NULL /\ ip_ranges_count = 0
    /\ allow_all = FALSE /\ allow = [k \in KindSet |-> k \in {"XML", "AVAHI"}]
    /\ cli_link_detail_level = -1
    /\ nutscan_avail = [k \in AvailKinds |-> TRUE] /\ avail0 = nutscan_avail
    /\ UnitsIdle
    /\ found = [r \in 0..MaxRanges |-> <<r>>]
    /\ timeout = timeout_default /\ tArgs = <<>>
    /\ ifap = <<>>
    /\ rlim_env = RLIM_INFINITY /\ nofile_limit = RLIM_INFINITY
    /\ default_threads = MaxDefaultThreads /\ max_threads = default_threads
    /\ lastT = 0 /\ sem = LibSem(max_threads)
    /\ auto_nets = 0 /\ nauto = 0 /\ ret_code = EXIT_SUCCESS /\ opt_ret = "A"
    /\ status = EXIT_SUCCESS /\ nU = 0
    /\ addCalls = <<>> /\ freed = <<>>

NextTimeout ==
    \/ Opt_t
    \/ EndOfOptions
    \/ SemInit
    \/ FinalFlush
    \/ AllowAll
    \/ \E k \in KindSet : Dispatch(k)
    \/ \E k \in KindSet : Unit(k)
    \/ \E k \in KindSet : Join(k)
    \/ \E k \in KindSet : Display(k)
    \/ \E k \in KindSet : FreeDevice(k)
    \/ SemDestroy
    \/ FreeRanges

SpecTimeout == InitTimeout /\ [][NextTimeout]_vars

\* The whole of main() with the thread ceiling varying: getrlimit() with
\* every soft limit, up to MaxT options -T, the re-initialisation of the gate, then the scan of the
\* simulation and serial protocols (as after -n -E) and the release.
InitGate ==
    /\ pc = "rlimit" /\ cur = 1
    /\ nopts = 0 /\ nalloc = 0 /\ supplied = <<>>
    /\ start_ip = NULL /\ end_ip = NULL
    /\ nodes = <<>> /\ ip_ranges = NULL /\ ip_ranges_last = NULL /\ ip_ranges_count = 0
    /\ allow_all = FALSE
    /\ allow = [k \in KindSet |-> k \in {"NUT_SIMULATION", "EATON_SERIAL"}]
    /\ cli_link_detail_level = -1
    /\ nutscan_avail = [k \in AvailKinds |-> TRUE] /\ avail0 = nutscan_avail
    /\ UnitsIdle
    /\ found = [r \in 0..MaxRanges |-> <<r>>]
    /\ timeout = timeout_default /\ tArgs = <<>>
    /\ ifap = <<>>
    /\ rlim_env \in 0..RLIM_INFINITY
    /\ nofile_limit = 0
    /\ default_threads = MaxDefaultThreads /\ max_threads = default_threads
    /\ lastT = 0 /\ sem = LibSem(max_threads)
    /\ auto_nets = 0 /\ nauto = 0 /\ ret_code = EXIT_SUCCESS /\ opt_ret = "E"
    /\ status = EXIT_SUCCESS /\ nU = 0
    /\ addCalls = <<>> /\ freed = <<>>

NextGate ==
    \/ GetRlimit
    \/ Opt_T
    \/ EndOfOptions
    \/ SemInit
    \/ FinalFlush
    \/ AllowAll
    \/ \E k \in KindSet : Dispatch(k)
    \/ \E k \in KindSet : Unit(k)
    \/ \E k \in KindSet : Join(k)
    \/ \E k \in KindSet : Display(k)
    \/ \E k \in KindSet : FreeDevice(k)
    \/ SemDestroy
    \/ FreeRanges

SpecGate == InitGate /\ [][NextGate]_vars

\* The results of the probes: every probe call finds up to MaxDevs devices,
\* the same device possibly in several ranges or several times in one; SNMP
\* and IPMI are requested (-S -I).
DevLists == UNION {[1..n -> 1..MaxDevs] : n \in 0..MaxDevs}

InitResults ==
    /\ pc = "dispatch" /\ cur = 1
    /\ nopts = 0 /\ nalloc = 0 /\ supplied = <<>>
    /\ start_ip = NULL /\ end_ip = NULL
    /\ \E n \in 0..MaxRanges :
        /\ nodes = RegistryOf(n).nodes
        /\ ip_ranges = RegistryOf(n).ip_ranges
        /\ ip_ranges_last = RegistryOf(n).ip_ranges_last
        /\ ip_ranges_count = RegistryOf(n).ip_ranges_count
    /\ allow_all = FALSE /\ allow = [k \in KindSet |-> k \in {"SNMP", "IPMI"}]
    /\ cli_link_detail_level = -1
    /\ nutscan_avail = [k \in AvailKinds |-> TRUE] /\ avail0 = nutscan_avail
    /\ UnitsIdle
    /\ found \in [0..MaxRanges -> DevLists]
    /\ timeout = timeout_default /\ tArgs = <<>>
    /\ ifap = <<>>
    /\ rlim_env = RLIM_INFINITY /\ nofile_limit = RLIM_INFINITY
    /\ default_threads = MaxDefaultThreads /\ max_threads = default_threads
    /\ lastT = 0
    /\ sem = [state |-> "init", value |-> sem_init_value(max_threads), by |-> "main"]
    /\ auto_nets = 0 /\ nauto = 0 /\ ret_code = EXIT_SUCCESS /\ opt_ret = "I"
    /\ status = EXIT_SUCCESS /\ nU = 0
    /\ addCalls = <<>> /\ freed = <<>>

NextResults == Next

SpecResults == InitResults /\ [][NextResults]_vars

\* ================================================================ claims

\* The address options given so far, by flag.
SuppliedBy(f) == {supplied[i].addr : i \in {j \in DOMAIN supplied : supplied[j].flag = f}}
SuppliedAddrs == SuppliedBy("s") \cup SuppliedBy("e")
FlagsGiven == [i \in DOMAIN supplied |-> supplied[i].flag]
AfterFlush == pc \in {"allow", "dispatch"}
RangesHolding(a) ==
    {i \in DOMAIN Registry : Registry[i].start_ip = a \/ Registry[i].end_ip = a}

\* C1: once option processing has ended (final flush included), every address
\* supplied with -s or -e occurs in exactly one registry range, and every
\* range holds one supplied address as both ends, or one -s address as start
\* and one -e address as end (or is the range of a -m CIDR).
C1_EveryAddressInOneRange ==
    AfterFlush =>
        /\ \A a \in SuppliedAddrs : Cardinality(RangesHolding(a)) = 1
        /\ \A i \in DOMAIN Registry :
            LET r == Registry[i]
            IN  \/ r.start_ip = r.end_ip /\ r.start_ip \in SuppliedAddrs
                \/ r.start_ip \in SuppliedBy("s") /\ r.end_ip \in SuppliedBy("e")
                \/ r.start_ip \in SuppliedBy("m") /\ r.end_ip = r.start_ip + 1

C1_Witness ==
    /\ AfterFlush
    /\ Len(supplied) = MaxOpts
    /\ \A i \in DOMAIN supplied : supplied[i].flag \in {"s", "e"}
    /\ \E i \in DOMAIN Registry : Registry[i].start_ip = Registry[i].end_ip
    /\ \E i \in DOMAIN Registry : Registry[i].start_ip > Registry[i].end_ip
    /\ \E i \in DOMAIN Registry : Registry[i].start_ip < Registry[i].end_ip

\* The range the pending buffer is flushed as.
PendingRange ==
    [start_ip |-> IF start_ip = NULL THEN end_ip ELSE start_ip,
     end_ip |-> IF end_ip = NULL THEN start_ip ELSE end_ip]

\* What one -s or -e step must do to the pending buffer and the registry.
C2_Step ==
    (Len(supplied') = Len(supplied) + 1) =>
        LET f == supplied'[Len(supplied')]
        IN  /\ f.flag = "s" =>
                IF start_ip # NULL
                THEN /\ Registry' = Append(Registry, PendingRange)
                     /\ start_ip' = f.addr /\ end_ip' = NULL
                ELSE IF end_ip # NULL
                THEN /\ Registry' = Append(Registry, [start_ip |-> f.addr, end_ip |-> end_ip])
                     /\ start_ip' = NULL /\ end_ip' = NULL
                ELSE /\ Registry' = Registry
                     /\ start_ip' = f.addr /\ end_ip' = NULL
            /\ f.flag = "e" =>
                IF end_ip # NULL
                THEN /\ Registry' = Append(Registry, PendingRange)
                     /\ end_ip' = f.addr /\ start_ip' = NULL
                ELSE IF start_ip # NULL
                THEN /\ Registry' = Append(Registry, [start_ip |-> start_ip, end_ip |-> f.addr])
                     /\ start_ip' = NULL /\ end_ip' = NULL
                ELSE /\ Registry' = Registry
                     /\ end_ip' = f.addr /\ start_ip' = NULL

\* start(A), start(B), end(C), with A, B, C the allocations 1, 2, 3.
C2_Example ==
    FlagsGiven = <<"s", "s", "e">> =>
        /\ Registry = <<[start_ip |-> 1, end_ip |-> 1], [start_ip |-> 2, end_ip |-> 3]>>
        /\ start_ip = NULL /\ end_ip = NULL

\* C2: a start set while a start is pending flushes the pending start as a
\* range and holds the new start; a start set while an end is pending records
\* {newStart, pendingEnd} and clears both slots; symmetric for an end; and
\* start(A), start(B), end(C) leave exactly {A,A} then {B,C}.
C2_PendingTransitions == [][C2_Step]_vars /\ []C2_Example

C2_Witness ==
    /\ FlagsGiven = <<"s", "s", "e">>
    /\ Len(Registry) = 2
    /\ ip_ranges_count = 2

\* The results of the ranges from node p on, in registry order.
RECURSIVE InRangeOrder(_, _, _, _)
InRangeOrder(k, heap, p, fuel) ==
    IF p = NULL \/ fuel = 0 THEN <<>>
    ELSE Probe(k, p).list \o InRangeOrder(k, heap, heap[p].next, fuel - 1)

BeforeRelease == pc \in {"dispatch", "join", "display", "free_dev", "sem_destroy", "free_ranges"}

\* C3: for every range-scoped protocol the final DeviceList is result(r1)
\* followed by result(r2) ... result(rN), in registry order.
C3_ResultsInRangeOrder ==
    \A k \in RangeScoped :
        (BeforeRelease /\ unit[k] = "done" /\ ip_ranges # NULL) =>
            dev[k].list = InRangeOrder(k, nodes, ip_ranges, Len(nodes))

ReportedKinds == [i \in DOMAIN reported |-> reported[i].kind]
EightKinds ==
    <<"USB", "SNMP", "XML", "NUT", "NUT_SIMULATION", "AVAHI", "IPMI", "EATON_SERIAL">>
ReportsDone == pc \in {"sem_destroy", "free_ranges", "done"}

\* C4: in every run that reaches the report phase the formatter is invoked
\* exactly once per protocol kind, empty lists included, in the order USB,
\* SNMP, XML/HTTP, legacy NUT, simulation, avahi, IPMI, serial.
C4_ReportOncePerKindInOrder ==
    /\ ReportedKinds = SubSeq(EightKinds, 1, Len(reported))
    /\ ReportsDone => ReportedKinds = EightKinds
    /\ pc \in {"dispatch", "join"} => reported = <<>>

C4_Witness ==
    /\ pc = "done"
    /\ outOfOrder
    /\ \E i \in DOMAIN reported : reported[i].list = <<>>
    /\ \E i \in DOMAIN reported : reported[i].list # <<>>

\* C5: each result slot is written by one unit only, that of its protocol,
\* and main() reads a slot (formatter, release) only after that unit was
\* joined: never while it is running.
C5_SlotReadAfterJoin ==
    /\ \A s \in KindSet : writers[s] \subseteq {s}
    /\ ~readEarly
    /\ pc \in {"display", "free_dev"} =>
          \A k \in KindSet : /\ unit[k] # "running"
                             /\ unit[k] = "done" => joinCalled[k]

C5_Witness ==
    /\ pc = "free_dev" /\ cur = Len(Kinds)
    /\ outOfOrder
    /\ Cardinality({k \in KindSet : writers[k] = {k}}) >= 3

\* C6: the registry is not mutated from the dispatch of the first unit to the
\* end of the last: it changes only when no unit is running, and once a unit
\* was started only in the release after the joins.
C6_RegistryStableWhileUnitsRun ==
    [][ (<<nodes, ip_ranges, ip_ranges_last, ip_ranges_count>>' # regVars) =>
            /\ \A k \in KindSet : unit[k] # "running"
            /\ (\E k \in KindSet : nstarted[k] > 0) => pc = "free_ranges" ]_vars

C6_Witness ==
    /\ pc = "done"
    /\ ip_ranges = NULL /\ ip_ranges_count = 0
    /\ \E k \in {"SNMP", "NUT"} : unit[k] = "done" /\ Len(calls[k]) = MaxRanges

\* C7: for every protocol kind, serial included, a failed start of its unit
\* clears the protocol's available flag and the join phase does not wait on
\* it, and every other enabled protocol is still dispatched, joined and
\* reported.
C7_FailedStartClearsFlag ==
    \A k \in KindSet : createFailed[k] =>
        /\ ~Avail(k)
        /\ ~joinCalled[k]
        /\ ReportsDone => \A j \in KindSet \ {k} :
               nstarted[j] = 1 => joinCalled[j] /\ j \in {ReportedKinds[i] : i \in DOMAIN reported}

ReportedEmpty(k) ==
    \A i \in DOMAIN reported : reported[i].kind = k => reported[i].list = <<>>

\* C8: each kind has at most one unit started, and only if it is allowed and
\* available; a kind whose flag is false is never dispatched and is reported
\* empty; a dispatched unit of USB, simulation, avahi or serial calls its
\* probe exactly once whatever the registry holds.
C8_OneUnitPerEnabledKind ==
    \A k \in KindSet :
        /\ nstarted[k] <= 1
        /\ nstarted[k] = 1 => allow[k] /\ (k \in AvailKinds => avail0[k])
        /\ ~Avail(k) => nstarted[k] = 0 /\ dev[k] = NoDevice /\ ReportedEmpty(k)
        /\ k \notin RangeScoped =>
              Len(calls[k]) = IF unit[k] = "done" THEN 1 ELSE 0

C8_Witness ==
    /\ pc = "done"
    /\ \E k \in AvailKinds : allow[k] /\ ~avail0[k]
    /\ \E k \in RangeScoped : Len(calls[k]) = MaxRanges
    /\ \E k \in KindSet \ RangeScoped : nstarted[k] = 1 /\ Len(calls[k]) = 1

PastDispatchOf(k) == pc # "dispatch" \/ cur > KindIndex(k)

\* C9: with the registry empty at dispatch time SNMP and legacy NUT are not
\* dispatched and are reported empty, while XML/HTTP and IPMI, if allowed and
\* available, are dispatched and call their probe exactly once, with no range.
C9_EmptyRegistry ==
    (pc # "done" /\ ip_ranges_count = 0) =>
        /\ \A k \in {"SNMP", "NUT"} :
              nstarted[k] = 0 /\ dev[k] = NoDevice /\ ReportedEmpty(k)
        /\ \A k \in {"XML", "IPMI"} :
              /\ (PastDispatchOf(k) /\ allow[k] /\ Avail(k)) => nstarted[k] = 1
              /\ Len(calls[k]) = IF unit[k] = "done" THEN 1 ELSE 0
              /\ unit[k] = "done" => calls[k] = <<NoArgs>>

C9_Witness ==
    /\ pc = "free_ranges" /\ ip_ranges_count = 0
    /\ allow["SNMP"] /\ avail0["SNMP"] /\ allow["NUT"] /\ avail0["NUT"]
    /\ calls["XML"] = <<NoArgs>> /\ calls["IPMI"] = <<NoArgs>>
    /\ \E i \in DOMAIN reported : reported[i].kind = "XML" /\ reported[i].list # <<>>

\* C10: for every soft limit L above the reservation, an explicit -T value
\* above L - 3 gives a ceiling of L - 3, and a default ceiling above L - 3 is
\* reduced to L - 3.
C10_CeilingWithinLimit ==
    (pc \in {"opts", "sem_init"} /\ nofile_limit > RESERVE_FD_COUNT) =>
        /\ (lastT = 0 /\ default_threads > nofile_limit - RESERVE_FD_COUNT) =>
              max_threads = nofile_limit - RESERVE_FD_COUNT
        /\ lastT > nofile_limit - RESERVE_FD_COUNT =>
              max_threads = nofile_limit - RESERVE_FD_COUNT

\* C11: the value the gate is initialised with never exceeds the largest
\* value the gate can hold (UINT_MAX, the width of the sem_init() argument),
\* whatever the default ceiling, the soft limit and the -T values: it is
\* max_threads itself, not a truncation of it.
C11_GateValueRepresentable ==
    sem.by = "main" =>
        /\ max_threads <= UINT_MAX
        /\ sem.value = max_threads
        /\ sem.value <= UINT_MAX

C11_Witness ==
    /\ sem.by = "main"
    /\ lastT > UINT_MAX
    /\ nofile_limit = 0
    /\ sem.value = UINT_MAX - 1

\* The option loop ended at display_help because of an error: an option
\* getopt_long() does not know, or the option of a protocol whose capability
\* is not available.
RefusedOption == opt_ret \in {OptLetter[k] : k \in {j \in CheckedAtOption : ~nutscan_avail[j]}}
ParsingFailed == pc = "exit" /\ (opt_ret = "?" \/ RefusedOption)

\* C12: the process returns the success status unless argument parsing
\* fails, and whenever argument parsing fails (every path that ends option
\* processing with the usage text because of an error, the option of an
\* unavailable protocol included) the status returned is not zero.
C12_StatusTellsParsingFailure ==
    /\ ParsingFailed => status # EXIT_SUCCESS
    /\ (pc \in {"exit", "done"} /\ ~ParsingFailed) => status = EXIT_SUCCESS

\* C13: a request for a protocol whose capability is not available does not
\* end the run: the protocol is left out of the dispatch and main() goes on
\* to dispatch the other requested protocols.
C13_UnavailableProtocolSkipped ==
    /\ RefusedOption => pc # "exit"
    /\ pc = "dispatch" =>
          \A k \in AvailKinds : ~nutscan_avail[k] => ~DispatchGuard(k)

Min(a, b) == IF a < b THEN a ELSE b

\* The level in every state: unset or 0..3, and min(k - 1, 3) after k
\* accepted -U options (with none, unset until "if (allow_all)" raises it).
C18_Level ==
    /\ cli_link_detail_level \in -1..3
    /\ nU >= 1 => cli_link_detail_level = Min(nU - 1, 3)
    /\ (nU = 0 /\ pc = "opts") => cli_link_detail_level = -1

\* C18: the USB link-detail level starts unset (-1), never decreases during
\* option processing, and never exceeds 3 after any number of -U flags: after
\* k >= 1 occurrences of -U it equals min(k - 1, 3).
C18_LinkLevelSaturates ==
    /\ []C18_Level
    /\ [][cli_link_detail_level' >= cli_link_detail_level]_vars

C18_Witness ==
    /\ pc = "dispatch"
    /\ nU = 5
    /\ cli_link_detail_level = 3

\* A step that is one add_ip_range() call, and that call.
NewCall == Len(addCalls') = Len(addCalls) + 1
LastCall == addCalls'[Len(addCalls')]
BothAbsent(c) == c.start_ip = NULL /\ c.end_ip = NULL
OnePresent(c) == (c.start_ip = NULL) # (c.end_ip = NULL)
\* The range a call records: an absent endpoint is the other one.
RangeOf(c) ==
    [start_ip |-> IF c.start_ip = NULL THEN c.end_ip ELSE c.start_ip,
     end_ip |-> IF c.end_ip = NULL THEN c.start_ip ELSE c.end_ip]

\* C14: add_ip_range with both endpoints absent is a no-op: it returns the
\* current count and leaves the contents, order, tail pointer and count of
\* the registry unchanged.
C14_BothAbsentIsNoOp ==
    [][ (NewCall /\ BothAbsent(LastCall)) =>
            /\ LastCall.ret = ip_ranges_count
            /\ <<nodes, ip_ranges, ip_ranges_last, ip_ranges_count>>' = regVars
            /\ Registry' = Registry ]_vars

C14_Witness ==
    /\ Len(addCalls) = MaxAdds
    /\ BothAbsent(addCalls[1]) /\ addCalls[1].ret = 0
    /\ BothAbsent(addCalls[MaxAdds]) /\ addCalls[MaxAdds].ret = 2
    /\ Len(Registry) = 2

\* C15: add_ip_range(X, absent) and add_ip_range(absent, X) each append
\* exactly one range whose start and end are both X.
C15_OneEndpointGivesSingleton ==
    [][ (NewCall /\ OnePresent(LastCall)) =>
            LET X == LastCall.start_ip + LastCall.end_ip
            IN  Registry' = Append(Registry, [start_ip |-> X, end_ip |-> X]) ]_vars

C15_Witness ==
    /\ pc = "opts"
    /\ \E i, j \in DOMAIN addCalls :
          /\ addCalls[i].start_ip # NULL /\ addCalls[i].end_ip = NULL
          /\ addCalls[j].start_ip = NULL /\ addCalls[j].end_ip # NULL
    /\ \A i \in DOMAIN Registry : Registry[i].start_ip = Registry[i].end_ip
    /\ Len(Registry) = 3

\* The calls that had an endpoint, in call order, as ranges.
RECURSIVE Recorded(_)
Recorded(cs) ==
    IF cs = <<>> THEN <<>>
    ELSE IF BothAbsent(Head(cs)) THEN Recorded(Tail(cs))
    ELSE <<RangeOf(Head(cs))>> \o Recorded(Tail(cs))

\* One call with an endpoint: appended at the tail, count raised by one and
\* returned, the ranges there before untouched; no other step but the release
\* changes the registry.
C16_Step ==
    /\ (NewCall /\ ~BothAbsent(LastCall)) =>
          /\ Registry' = Append(Registry, RangeOf(LastCall))
          /\ ip_ranges_count' = ip_ranges_count + 1
          /\ LastCall.ret = ip_ranges_count'
          /\ ip_ranges_last' # NULL /\ nodes'[ip_ranges_last'].next = NULL
          /\ \A p \in DOMAIN nodes : /\ nodes'[p].start_ip = nodes[p].start_ip
                                      /\ nodes'[p].end_ip = nodes[p].end_ip
    /\ (Registry' # Registry) => (NewCall \/ pc = "free_ranges")

\* The registry is the calls in call order, and a range-scoped unit that
\* has run made its probe calls in that order.
C16_Order ==
    pc # "done" =>
        /\ Registry = Recorded(addCalls)
        /\ ip_ranges_count = Len(Registry)
        /\ \A k \in RangeScoped :
              (unit[k] = "done" /\ ip_ranges # NULL) => calls[k] = Registry

\* C16: every add_ip_range call with at least one endpoint present appends
\* its range at the tail, raises the count by exactly one and returns the new
\* count; existing ranges are never removed, changed or reordered, so the
\* registry order is the order of the calls and the order in which every
\* range-scoped probe iterates.
C16_AppendOnlyInCallOrder == [][C16_Step]_vars /\ []C16_Order

C16_Witness ==
    /\ pc = "free_ranges"
    /\ Len(Registry) = 3
    /\ \E i \in DOMAIN addCalls : BothAbsent(addCalls[i])
    /\ \A k \in RangeScoped : unit[k] = "done" /\ Len(calls[k]) = 3

\* How often free() was called for x.
FreeCount(x) == Cardinality({i \in DOMAIN freed : freed[i] = x})
\* The strings the recorded ranges hold and the nodes that hold them.
RecordedStrings ==
    ({addCalls[i].start_ip : i \in DOMAIN addCalls}
        \cup {addCalls[i].end_ip : i \in DOMAIN addCalls}) \ {NULL}
RecordedNodes == 1..Len(Recorded(addCalls))

\* C19: free_ip_ranges releases every range node and every endpoint string
\* exactly once, the string once only when start and end of a range are the
\* same allocation, and leaves the registry empty (head and tail absent,
\* count 0).
C19_ReleaseOnce ==
    pc = "done" =>
        /\ \A a \in RecordedStrings : FreeCount([what |-> "string", id |-> a]) = 1
        /\ \A p \in RecordedNodes : FreeCount([what |-> "node", id |-> p]) = 1
        /\ Len(freed) = Cardinality(RecordedStrings) + Cardinality(RecordedNodes)
        /\ ip_ranges = NULL /\ ip_ranges_last = NULL /\ ip_ranges_count = 0
        /\ Registry = <<>>

C19_Witness ==
    /\ pc = "done"
    /\ \E i \in DOMAIN addCalls : OnePresent(addCalls[i])
    /\ \E i \in DOMAIN addCalls : addCalls[i].start_ip # NULL /\ addCalls[i].end_ip # NULL
    /\ Len(freed) >= 6

\* Every protocol main() has passed the dispatch block of was started if it
\* was allowed and available (and, for SNMP and legacy NUT, a range was
\* recorded), unless pthread_create() failed.
C20_AllStarted ==
    pc # "done" =>
        \A k \in KindSet :
            (/\ PastDispatchOf(k)
             /\ allow[k] /\ (k \in AvailKinds => avail0[k])
             /\ ~(NeedsRanges(k) /\ ip_ranges_count = 0)
             /\ ~createFailed[k]) => nstarted[k] = 1

AutoFlags == SelectSeq(FlagsGiven, LAMBDA f : f \in {"auto", "auto4", "auto6"})

\* A later auto-detect request: the scope stays, no string is allocated for
\* an interface, and the registry gains at most the range that was pending.
C17_Step ==
    (nauto' = nauto + 1 /\ nauto >= 1) =>
        /\ auto_nets' = auto_nets
        /\ nalloc' = nalloc
        /\ Registry' = IF start_ip # NULL \/ end_ip # NULL
                       THEN Append(Registry, PendingRange) ELSE Registry

\* The scope is the one of the first request.
C17_Scope ==
    /\ nauto = Len(AutoFlags)
    /\ nauto >= 1 => auto_nets = auto_scope(AutoFlags[1])
    /\ nauto = 0 => auto_nets = 0

\* C17: auto-detect is one-shot: after the first of -m auto / auto4 / auto6
\* every later auto-detect request adds no interface-derived range and does
\* not change the address-family scope the first request chose.
C17_AutoDetectOneShot == [][C17_Step]_vars /\ []C17_Scope

C17_Witness ==
    /\ pc = "dispatch"
    /\ AutoFlags = <<"auto4", "auto">>
    /\ auto_nets = 4
    /\ Len(Registry) = 2
    /\ nalloc = 3

\* What the concurrent execution reports for kind k: the slot its unit
\* leaves, whatever the interleaving; nothing when no unit is started.
ConcurrentReport(k) ==
    IF allow[k] /\ (k \in AvailKinds => avail0[k]) /\ ~(NeedsRanges(k) /\ ip_ranges_count = 0)
    THEN run(k, nodes, ip_ranges).dev.list
    ELSE <<>>

\* The concurrent execution reports ConcurrentReport under every
\* interleaving in which every pthread_create() succeeds.
ConcurrentReportIsDetermined ==
    (BeforeRelease /\ \A k \in KindSet : ~createFailed[k]) =>
        \A i \in DOMAIN reported :
            reported[i] = [kind |-> EightKinds[i], list |-> ConcurrentReport(EightKinds[i])]

\* C21: with the same options, registry and probe results, the execution
\* without threads, the run functions called in enumeration order, reports
\* for every protocol kind the same DeviceList, in the same report order, as
\* the concurrent execution.
C21_SequentialReportsTheSame ==
    BeforeRelease =>
        \A i \in DOMAIN reported :
            reported[i] = [kind |-> EightKinds[i], list |-> ConcurrentReport(EightKinds[i])]

\* The step from the option loop to the dispatch, with the protocol options
\* that were given (allow_x is set by the option of x only, allow_all by -C).
C22_Step ==
    pc = "allow" =>
        LET given == {k \in KindSet : allow[k]}
            all7 == allow_all \/ given = {}
        IN  /\ all7 => \A k \in KindSet \ {"EATON_SERIAL"} : allow'[k]
            /\ ~all7 => \A k \in KindSet \ {"EATON_SERIAL"} : allow'[k] = (k \in given)
            /\ allow'["EATON_SERIAL"] = ("EATON_SERIAL" \in given)
            /\ (~allow_all /\ given = {"EATON_SERIAL"}) =>
                  \A k \in KindSet \ {"EATON_SERIAL"} : ~allow'[k]

\* C22: after option processing all seven non-serial kinds are allowed when
\* -C was given or no protocol option at all; serial is allowed only when -E
\* was given, and -E alone does not enable the other seven.
C22_AllowedSet == [][C22_Step]_vars

C22_Witness ==
    /\ pc = "dispatch"
    /\ ~allow_all
    /\ allow = [k \in KindSet |-> k = "EATON_SERIAL"]

\* The units the join phase has to wait for: started, the protocol still
\* allowed and available.
ToJoin(k) == allow[k] /\ Avail(k) /\ nstarted[k] = 1

\* In every state: a join was called only for a protocol still allowed and
\* available; a formatter call was made only after every unit to wait for was
\* joined and had finished; a protocol never dispatched is reported empty.
C23_State ==
    /\ \A k \in KindSet : joinCalled[k] => allow[k] /\ Avail(k)
    /\ reported # <<>> =>
          \A k \in KindSet : ToJoin(k) => joinCalled[k] /\ unit[k] = "done"
    /\ \A k \in KindSet : nstarted[k] = 0 => ReportedEmpty(k)

\* A step that calls a join: no protocol later in the order was joined
\* before, every earlier unit to wait for was; main() gets past the join of
\* a started unit only when that unit has finished.
C23_Step ==
    \A k \in KindSet :
        (joinCalled'[k] /\ ~joinCalled[k]) =>
            /\ \A j \in KindSet : KindIndex(j) > KindIndex(k) => ~joinCalled[j]
            /\ \A j \in KindSet : (KindIndex(j) < KindIndex(k) /\ ToJoin(j)) => joinCalled[j]
            /\ nstarted[k] = 1 => unit[k] = "done"
            /\ reported = <<>>

\* C23: the join phase waits for the units in the order USB, SNMP, XML/HTTP,
\* legacy NUT, simulation, avahi, IPMI, serial, only for units whose protocol
\* is still allowed and available; the first formatter call comes after every
\* such join has returned; a protocol never dispatched is reported empty.
C23_JoinInOrderThenReport == []C23_State /\ [][C23_Step]_vars

C23_Witness ==
    /\ pc = "done"
    /\ outOfOrder
    /\ Cardinality({k \in KindSet : joinCalled[k]}) = 7
    /\ \E k \in KindSet : createFailed[k] /\ ~joinCalled[k]

\* The run is complete: every started unit has finished, the eight reports
\* are out, the registry is released, main() has returned EXIT_SUCCESS.
RunComplete ==
    /\ pc = "done" /\ status = EXIT_SUCCESS
    /\ \A k \in KindSet : nstarted[k] = 1 => unit[k] = "done"
    /\ ReportedKinds = EightKinds
    /\ ip_ranges = NULL /\ ip_ranges_count = 0

\* The run completes in every fair run in which pthread_create() does not
\* fail for the serial unit.
RunCompletesUnlessSerialStartFailed ==
    <>(RunComplete \/ createFailed["EATON_SERIAL"])

\* C24: if every dispatched probe call returns, then under fair scheduling
\* the run completes: every started unit finishes, the join phase ends, all
\* eight reports are emitted, the registry is released and the process
\* returns success; no step of main() cancels a unit or times it out.
C24_RunCompletes ==
    /\ <>RunComplete
    /\ [][\A k \in KindSet : unit[k] = "running" => unit'[k] \in {"running", "done"}]_vars

\* How many entries of the list l are the device d.
Count(l, d) == Cardinality({i \in 1..Len(l) : l[i] = d})

\* The number of devices the probe calls of kind k return over the registry.
RECURSIVE PerRangeTotal(_, _, _, _)
PerRangeTotal(k, heap, p, fuel) ==
    IF p = NULL \/ fuel = 0 THEN 0
    ELSE Len(Probe(k, p).list) + PerRangeTotal(k, heap, heap[p].next, fuel - 1)

\* How many times the probe calls of kind k over the registry return d.
RECURSIVE PerRangeCount(_, _, _, _, _)
PerRangeCount(k, d, heap, p, fuel) ==
    IF p = NULL \/ fuel = 0 THEN 0
    ELSE Count(Probe(k, p).list, d) + PerRangeCount(k, d, heap, heap[p].next, fuel - 1)

\* The unit of kind k has gone through a registry that is not empty.
RangesScanned(k) ==
    /\ k \in RangeScoped
    /\ unit[k] = "done"
    /\ ip_ranges # NULL
    /\ released = <<>>

\* C25: when a range-scoped unit has gone through the registry, the probe
\* was called once per range, with the endpoints of that range and in
\* registry order; the device list of the protocol holds every device as
\* many times as the per-range results hold it together, so its length is
\* the sum of their lengths, and it is empty when every result is.
C25_EveryRangeResultKept ==
    \A k \in RangeScoped :
        RangesScanned(k) =>
            /\ calls[k] = Registry
            /\ Len(dev[k].list) = PerRangeTotal(k, nodes, ip_ranges, Len(nodes))
            /\ \A d \in {<<k, i>> : i \in 1..MaxDevs} :
                  Count(dev[k].list, d) = PerRangeCount(k, d, nodes, ip_ranges, Len(nodes))
            /\ (PerRangeTotal(k, nodes, ip_ranges, Len(nodes)) = 0 => dev[k] = NoDevice)

\* SNMP went through two ranges that both hold the same device, one of them
\* twice: the list holds it three times.
C25_Witness ==
    /\ RangesScanned("SNMP")
    /\ Len(Registry) = 2
    /\ Count(dev["SNMP"].list, <<"SNMP", 1>>) = 3
    /\ Count(Probe("SNMP", ip_ranges).list, <<"SNMP", 1>>) = 1

\* The interface addresses that contribute a range under the scope an: IPv4
\* or IPv6, not loopback, up, running, broadcast, family within the scope.
Contributes(an, ifa) ==
    /\ ifa.family = "AF_INET" \/ ifa.family = "AF_INET6"
    /\ ifa.flags \cap IFF = {"IFF_UP", "IFF_RUNNING", "IFF_BROADCAST"}
    /\ an = 4 => ifa.family = "AF_INET"
    /\ an = 6 => ifa.family = "AF_INET6"

Contributing(an) == SelectSeq(ifap, LAMBDA ifa : Contributes(an, ifa))

\* The step is an auto-detect that went through the interface addresses.
AutoDetectStep ==
    /\ pc = "opts" /\ pc' = "opts"
    /\ auto_nets = 0 /\ auto_nets' # 0

\* The ranges the registry held before the step, with a pending endpoint
\* flushed.
FlushedBefore == IF start_ip # NULL \/ end_ip # NULL THEN 1 ELSE 0

C26_Step ==
    AutoDetectStep =>
        LET base == Len(Registry) + FlushedBefore
            sel == Contributing(auto_nets')
        IN  /\ Len(Registry') = base + Len(sel)
            /\ SubSeq(Registry', 1, Len(Registry)) = Registry
            /\ \A j \in 1..Len(sel) :
                  Registry'[base + j] =
                     [start_ip |-> nalloc + 2 * j - 1, end_ip |-> nalloc + 2 * j]
            /\ nalloc' = nalloc + 2 * Len(sel)

\* C26: an auto-detect adds to the registry one range for each interface
\* address that is IPv4 or IPv6, not loopback, up, running, broadcast and of
\* a family within the requested scope, and for no other; the ranges are
\* appended in the order getifaddrs() reports the addresses.
C26_ContributingInterfaces == [][C26_Step]_vars

\* An auto6 request went through two interface addresses that differ in the
\* family only: the IPv6 one gave the only range.
C26_Witness ==
    /\ auto_nets = 6
    /\ Len(ifap) = 2
    /\ ifap[1].family = "AF_INET" /\ ifap[2].family = "AF_INET6"
    /\ ifap[1].flags = {"IFF_UP", "IFF_RUNNING", "IFF_BROADCAST"}
    /\ ifap[2].flags = ifap[1].flags
    /\ Len(Registry) = 1
    /\ nauto = 1

\* The gate as main() re-initialised it: live, holding the thread ceiling.
GateReady == sem.state = "init" /\ sem.by = "main" /\ sem.value = max_threads

\* Some unit starts, runs or finishes in the step.
UnitStep == \E k \in KindSet : unit'[k] # unit[k] \/ nstarted'[k] # nstarted[k]

C27_Step ==
    /\ sem' # sem =>
          \/ /\ pc = "sem_init" /\ pc' = "flush"
             /\ \A k \in KindSet : nstarted[k] = 0
             /\ sem.by = "lib"
             /\ GateReady'
          \/ /\ pc = "sem_destroy"
             /\ Len(reported) = Len(Kinds)
             /\ \A k \in KindSet : unit[k] # "running"
             /\ sem' = [sem EXCEPT !.state = "destroyed"]
    /\ UnitStep => GateReady
    /\ max_threads' # max_threads => pc \in {"rlimit", "opts", "sem_init"}

\* C27: the gate changes in two steps only: after the option loop and
\* before any unit is started it is re-initialised with max_threads as the
\* options left it, and after the eight reports it is destroyed; from the
\* first dispatch to the last report it is live and holds max_threads, so
\* every unit starts and runs against the re-initialised gate.
C27_GateReinitialisedBeforeUnits ==
    /\ [][C27_Step]_vars
    /\ [](pc \in {"flush", "allow", "dispatch", "join", "display", "free_dev", "sem_destroy"}
            => GateReady)

\* A run with -T 2 is over: the unit of the simulation protocol ran against
\* a gate of two, which was destroyed after the reports.
C27_Witness ==
    /\ pc = "done"
    /\ lastT = 2
    /\ sem = [state |-> "destroyed", value |-> 2, by |-> "main"]
    /\ nstarted["NUT_SIMULATION"] = 1
    /\ Len(reported) = Len(Kinds)

\* The flags of the -m options in the history of address options.
MaskFlags == {"m", "auto", "auto4", "auto6"}

\* The step processes a -m option.
MaskStep ==
    /\ Len(supplied') = Len(supplied) + 1
    /\ supplied'[Len(supplied')].flag \in MaskFlags

\* The single-address range a pending endpoint is flushed as.
FlushedRange ==
    [start_ip |-> IF start_ip # NULL THEN start_ip ELSE end_ip,
     end_ip   |-> IF end_ip # NULL THEN end_ip ELSE start_ip]

C28_Step ==
    MaskStep =>
        /\ start_ip' = NULL /\ end_ip' = NULL
        /\ Len(Registry') >= Len(Registry) + FlushedBefore
        /\ SubSeq(Registry', 1, Len(Registry)) = Registry
        /\ FlushedBefore = 1 =>
              /\ (start_ip = NULL \/ end_ip = NULL)
              /\ Registry'[Len(Registry) + 1] = FlushedRange
        /\ \A j \in (Len(Registry) + FlushedBefore + 1)..Len(Registry') :
              Registry'[j].start_ip > nalloc /\ Registry'[j].end_ip > nalloc

\* The positions in the history of the options that gave the string a.
GivenAt(a) == {i \in 1..Len(supplied) : supplied[i].flag \in {"s", "e"} /\ supplied[i].addr = a}

\* No range, recorded or pending, pairs endpoints of a -s and a -e that have
\* a -m between them.
NoPairAcrossMask ==
    \A r \in {Registry[j] : j \in 1..Len(Registry)}
             \cup {[start_ip |-> start_ip, end_ip |-> end_ip]} :
        \A i \in GivenAt(r.start_ip), j \in GivenAt(r.end_ip) :
            \A h \in 1..Len(supplied) :
                supplied[h].flag \in MaskFlags => ~(i < h /\ h < j) /\ ~(j < h /\ h < i)

\* C28: a step that processes -m (a CIDR, an auto mode, a duplicate auto
\* request) leaves the pending buffer empty; a start or end that was
\* pending is recorded as a single-address range right after the ranges
\* already there and before any range the -m adds; and no range ever pairs
\* the address of a -s with the address of a -e across a -m.
C28_MaskFlushesPending ==
    /\ [][C28_Step]_vars
    /\ []NoPairAcrossMask

\* -s, -m auto4, -e, -m auto: the start was recorded alone before the range
\* of the interface, the end was recorded alone by the duplicate request.
C28_Witness ==
    /\ Len(supplied) = 4
    /\ supplied[1].flag = "s" /\ supplied[2].flag = "auto4"
    /\ supplied[3].flag = "e" /\ supplied[4].flag = "auto"
    /\ Len(ifap) = 1
    /\ Registry = <<[start_ip |-> supplied[1].addr, end_ip |-> supplied[1].addr],
                    [start_ip |-> 2, end_ip |-> 3],
                    [start_ip |-> supplied[3].addr, end_ip |-> supplied[3].addr]>>
    /\ start_ip = NULL /\ end_ip = NULL

\* The add_ip_range() calls so far that were given at least one address.
CallsWithAddress ==
    {i \in 1..Len(addCalls) : addCalls[i].start_ip # NULL \/ addCalls[i].end_ip # NULL}

\* C29: every node ever allocated for the registry, and so every range on
\* the list, has a start and an end address; and until the registry is
\* released it holds as many ranges as calls were given an address, so none
\* stands for a call with two absent endpoints.
C29_RangesHaveBothEndpoints ==
    /\ \A i \in 1..Len(nodes) : nodes[i].start_ip # NULL /\ nodes[i].end_ip # NULL
    /\ \A i \in 1..Len(Registry) :
          Registry[i].start_ip # NULL /\ Registry[i].end_ip # NULL
    /\ Len(Registry) <= Cardinality(CallsWithAddress)
    /\ freed = <<>> => Len(Registry) = Cardinality(CallsWithAddress)

\* Four calls were made: with no address, with an end only, with a start
\* only, with both; the registry holds three ranges.
C29_Witness ==
    /\ Len(addCalls) = 4
    /\ addCalls[1].start_ip = NULL /\ addCalls[1].end_ip = NULL
    /\ addCalls[2].start_ip = NULL /\ addCalls[2].end_ip # NULL
    /\ addCalls[3].start_ip # NULL /\ addCalls[3].end_ip = NULL
    /\ addCalls[4].start_ip # NULL /\ addCalls[4].end_ip # NULL
    /\ Len(Registry) = 3
    /\ Registry[1].start_ip = addCalls[2].end_ip
    /\ Registry[2].end_ip = addCalls[3].start_ip

\* The step processes a -t option whose value is v.
TimeoutStep(v) == tArgs' = Append(tArgs, v)

\* timeout is never zero: not in the option loop and not when the units are
\* handed it.
TimeoutNeverZero == timeout # Zero

\* A -t whose value is zero leaves the default.
ZeroTimeoutGivesDefault ==
    [][TimeoutStep(0) => timeout' = timeout_default]_vars

\* C30: after a -t option whose value is zero or negative timeout is
\* DEFAULT_NETWORK_TIMEOUT seconds, and timeout is never zero.
C30_IllegalTimeoutGivesDefault ==
    /\ [][\A v \in TimeoutArgs :
            (TimeoutStep(v) /\ v <= 0) => timeout' = timeout_default]_vars
    /\ []TimeoutNeverZero

\* The step processes a -m whose CIDR does not parse.
MalformedStep ==
    /\ Len(supplied') = Len(supplied) + 1
    /\ supplied'[Len(supplied')] = [flag |-> "m", addr |-> NULL]

\* C31 as stated: a -m with a malformed CIDR leaves the registry as it was
\* and the pending buffer empty, and the option loop goes on.
C31_MalformedCidrLeavesRegistry ==
    [][MalformedStep =>
          /\ Registry' = Registry
          /\ start_ip' = NULL /\ end_ip' = NULL
          /\ pc' = "opts"]_vars

\* C31, amended: a -m with a malformed CIDR adds no range of its own and
\* allocates no string; the registry gains only the single-address range of
\* an endpoint that was pending, and is as it was when none was; the pending
\* buffer is empty afterwards and the option loop goes on.
C31_MalformedCidrAddsNoRange ==
    [][MalformedStep =>
          /\ Len(Registry') = Len(Registry) + FlushedBefore
          /\ SubSeq(Registry', 1, Len(Registry)) = Registry
          /\ FlushedBefore = 1 => Registry'[Len(Registry')] = FlushedRange
          /\ FlushedBefore = 0 => Registry' = Registry
          /\ nalloc' = nalloc
          /\ start_ip' = NULL /\ end_ip' = NULL
          /\ pc' = "opts"]_vars

\* -s, then -m with a malformed CIDR, then -e: the start was recorded alone
\* by the -m, the end is pending.
C31_Witness ==
    /\ pc = "opts"
    /\ Len(supplied) = 3
    /\ supplied[1].flag = "s"
    /\ supplied[2] = [flag |-> "m", addr |-> NULL]
    /\ supplied[3].flag = "e"
    /\ Registry = <<[start_ip |-> supplied[1].addr, end_ip |-> supplied[1].addr]>>
    /\ start_ip = NULL /\ end_ip = supplied[3].addr

\* main() is past the flush that follows the option loop.
PastFinalFlush == pc \notin {"rlimit", "opts", "sem_init", "flush", "exit"}

\* C32: between options start_ip and end_ip are never both set, and once
\* the flush after the option loop is done both are NULL.
C32_AtMostOnePending ==
    /\ ~(start_ip # NULL /\ end_ip # NULL)
    /\ PastFinalFlush => (start_ip = NULL /\ end_ip = NULL)

\* -s and -e gave a range, a second -e is pending alone.
C32_Witness ==
    /\ pc = "opts"
    /\ Len(supplied) = 3
    /\ supplied[1].flag = "s" /\ supplied[2].flag = "e" /\ supplied[3].flag = "e"
    /\ Registry = <<[start_ip |-> supplied[1].addr, end_ip |-> supplied[2].addr]>>
    /\ start_ip = NULL /\ end_ip = supplied[3].addr

\* The option read in the step ends the option loop by the usage text (-h,
\* an unknown option, the option of a protocol that is not available) or by
\* an informational mode (-V, -a).
EndsByUsageOrInfo ==
    /\ pc = "opts"
    /\ nopts' = nopts
    /\ \/ opt_ret' \in {"h", "?", "V", "a"}
       \/ \E k \in CheckedAtOption : opt_ret' = OptLetter[k] /\ ~nutscan_avail[k]

\* No unit was started, no pthread_join() and no formatter call was made.
NothingScanned ==
    /\ \A k \in KindSet : nstarted[k] = 0 /\ unit[k] = "none" /\ ~joinCalled[k]
    /\ reported = <<>>
    /\ released = <<>>

\* C33: an option that shows the usage text or is an informational mode
\* ends the process in that step; the process has then started no unit and
\* emitted no report, and takes no further step.
C33_UsageOrInfoScansNothing ==
    /\ [][EndsByUsageOrInfo => pc' = "exit"]_vars
    /\ [](pc = "exit" => NothingScanned)
    /\ [][pc = "exit" => pc' = "exit"]_vars

\* -n, then -U in a build without USB support: the usage text ended the
\* run, the simulation protocol that was requested was not scanned.
C33_Witness ==
    /\ pc = "exit"
    /\ opt_ret = "U" /\ ~nutscan_avail["USB"]
    /\ allow["NUT_SIMULATION"]
    /\ NothingScanned

\* The step starts the USB unit.
UsbDispatched == nstarted'["USB"] = nstarted["USB"] + 1

\* The link-detail level nU options -U ask for; 0 when none was given.
LevelAsked == IF nU = 0 THEN 0 ELSE IF nU > 4 THEN 3 ELSE nU - 1

C34_Step ==
    /\ UsbDispatched =>
          /\ cli_link_detail_level \in 0..3
          /\ cli_link_detail_level = LevelAsked
    /\ (nU' = nU + 1 /\ cli_link_detail_level = -1) => cli_link_detail_level' = 0
    /\ pc = "allow" =>
          cli_link_detail_level' =
             IF allow_all' /\ nU = 0 THEN 0 ELSE cli_link_detail_level
    /\ pc \notin {"opts", "allow"} => cli_link_detail_level' = cli_link_detail_level

\* C34: the USB unit is started only with a link-detail level in 0..3, and
\* the level is the same from then on, so the unit reads that value; the
\* first -U sets the level to 0, a complete scan sets it to 0 when no -U was
\* given and leaves it as the -U options set it otherwise.
C34_UsbLevelSet ==
    /\ [][C34_Step]_vars
    /\ [](unit["USB"] # "none" => cli_link_detail_level \in 0..3)

\* -U -U -C: the USB unit of a complete scan ran with level 1.
C34_Witness ==
    /\ unit["USB"] = "done"
    /\ allow_all /\ nU = 2 /\ opt_ret = "C"
    /\ cli_link_detail_level = 1

\* What strtol() may give for the argument of a -T that is not a complete
\* positive decimal number: zero or a negative value, or characters left
\* over after any value.
NotAPositiveNumber(val, complete) == val <= 0 \/ ~complete

\* Processed in the current state, no such -T changes max_threads.
RefusedKeepsCeiling ==
    pc = "opts" =>
        \A val \in -1..LONG_MAX, complete \in BOOLEAN :
            NotAPositiveNumber(val, complete) =>
                case_T(max_threads, nofile_limit, val, complete) = max_threads

\* C35: max_threads is at least 1 in every state, from the library's value
\* through the clamp to the descriptor limit, the -T options and the clamp
\* for sem_init(); a -T whose argument is not a complete positive decimal
\* number leaves max_threads as it is: no such value would change it in any
\* state of the option loop, and a step that processes a -T while no -T has
\* been accepted changes nothing.
C35_CeilingAtLeastOne ==
    /\ [](max_threads >= 1)
    /\ []RefusedKeepsCeiling
    /\ [][(nopts' = nopts + 1 /\ lastT' = 0) => max_threads' = max_threads]_vars

\* getrlimit() reported 5 and the ceiling was cut to 2; two -T options were
\* then refused and the gate was initialised with 2.
C35_Witness ==
    /\ pc = "flush"
    /\ nofile_limit = 5 /\ default_threads > 2
    /\ nopts = 2 /\ lastT = 0
    /\ max_threads = 2
    /\ sem.value = 2

====
